---- MODULE Spec2Model ----
(***************************************************************************)
(* A model of zgo.at/zvalidate: the error accumulator (type Validator with *)
(* Append, Pop, HasErrors, ErrorOrNil, Sub and Merge) and the domain and   *)
(* hostname validators built on validDomain and punyDecode.                *)
(*                                                                         *)
(* A Go string is a sequence of one-character strings, so that key         *)
(* composition, formatting and splitting are computed character by         *)
(* character.  A Go map[string][]string is a function whose domain is the  *)
(* set of keys present.                                                    *)
(***************************************************************************)
EXTENDS Integers, Sequences, FiniteSets, TLC

(***************************************************************************)
(* Bounds of the model.                                                    *)
(***************************************************************************)
\* largest number of messages held by all accumulators together
MaxTotalMsgs == 4

\* the error value nil
NilError == [kind |-> "nil", of |-> "v", text |-> << >>]

\* the slice value nil
NilSlice == [isNil |-> TRUE, elems |-> << >>]

\* a slice that is not nil
Slice(elems) == [isNil |-> FALSE, elems |-> elems]

(***************************************************************************)
(* Characters.  A character is a string: an ASCII character is itself, any *)
(* other rune is the decimal text of its code point.                       *)
(***************************************************************************)
\* the printable ASCII characters, in the order of their codes 32..126; the
\* grave accent (96) is written as the decimal text of its code
Ascii ==
    <<" ", "!", "\"", "#", "$", "%", "&", "'", "(", ")", "*", "+", ",", "-",
      ".", "/", "0", "1", "2", "3", "4", "5", "6", "7", "8", "9", ":", ";",
      "<", "=", ">", "?", "@", "A", "B", "C", "D", "E", "F", "G", "H", "I",
      "J", "K", "L", "M", "N", "O", "P", "Q", "R", "S", "T", "U", "V", "W",
      "X", "Y", "Z", "[", "\\", "]", "^", "_", "96", "a", "b", "c", "d", "e",
      "f", "g", "h", "i", "j", "k", "l", "m", "n", "o", "p", "q", "r", "s",
      "t", "u", "v", "w", "x", "y", "z", "{", "|", "}", "~">>

\* the character of a code point
Chr(n) == IF 32 <= n /\ n <= 126 THEN Ascii[n - 31] ELSE ToString(n)

\* the largest code point a character of an input value has
MaxInputRune == 255

\* the code points of the printable ASCII characters
AsciiOrd ==
    [c \in {Ascii[i] : i \in 1..Len(Ascii)} |->
        31 + (CHOOSE i \in 1..Len(Ascii) : Ascii[i] = c)]

\* the code point of a character
Ord(c) ==
    IF c \in DOMAIN AsciiOrd THEN AsciiOrd[c]
    ELSE CHOOSE n \in 127..MaxInputRune : Chr(n) = c

\* the runes of a string
Runes(str) == [i \in 1..Len(str) |-> Ord(str[i])]

\* string(runes)
String(runes) == [i \in 1..Len(runes) |-> Chr(runes[i])]

\* the number of bytes of a rune in UTF-8
RuneLen(n) == IF n < 128 THEN 1 ELSE IF n < 2048 THEN 2 ELSE IF n < 65536 THEN 3 ELSE 4

\* len(str): the number of bytes of a string, summed by halves
RECURSIVE ByteLen(_)
ByteLen(str) ==
    IF str = << >> THEN 0
    ELSE IF Len(str) = 1 THEN RuneLen(Ord(str[1]))
    ELSE ByteLen(SubSeq(str, 1, Len(str) \div 2))
         + ByteLen(SubSeq(str, (Len(str) \div 2) + 1, Len(str)))

\* strconv.Itoa for numbers that are not negative
RECURSIVE Itoa(_)
Itoa(n) ==
    IF n < 10 THEN <<Chr(48 + n)>> ELSE Itoa(n \div 10) \o <<Chr(48 + (n % 10))>>

(***************************************************************************)
(* fmt.Sprintf.  An argument is a string, an int or a rune.  A format is   *)
(* copied up to a percent sign; two percent signs are one literal percent  *)
(* sign, a percent sign that ends the format prints the NOVERB text, a     *)
(* verb with no argument left the MISSING text; s and v print a string, d  *)
(* an int, q a quoted string or rune; a verb that does not fit its         *)
(* argument prints the bad verb text with type and value, and arguments    *)
(* left over are listed in the EXTRA text.  Flags, width and precision do  *)
(* not occur in the formats of this model.                                 *)
(***************************************************************************)
StrArg(str) == [type |-> "string", str |-> str, int |-> 0]

IntArg(n) == [type |-> "int", str |-> << >>, int |-> n]

RuneArg(n) == [type |-> "int32", str |-> << >>, int |-> n]

\* unicode.IsPrint for the runes below 256
IsPrint(n) == (32 <= n /\ n <= 126) \/ (161 <= n /\ n <= 255 /\ n # 173)

\* the hexadecimal digits of an escaped rune
HexDigits == <<"0", "1", "2", "3", "4", "5", "6", "7", "8", "9", "a", "b", "c", "d", "e", "f">>

Hex2(n) == <<HexDigits[((n \div 16) % 16) + 1], HexDigits[(n % 16) + 1]>>

Hex4(n) == Hex2(n \div 256) \o Hex2(n % 256)

\* the text of a rune inside a quoted literal whose quote character is quote
QuotedRune(n, quote) ==
    IF Chr(n) = quote \/ Chr(n) = "\\" THEN <<"\\", Chr(n)>>
    ELSE IF IsPrint(n) THEN <<Chr(n)>>
    ELSE IF n = 7 THEN <<"\\", "a">>
    ELSE IF n = 8 THEN <<"\\", "b">>
    ELSE IF n = 12 THEN <<"\\", "f">>
    ELSE IF n = 10 THEN <<"\\", "n">>
    ELSE IF n = 13 THEN <<"\\", "r">>
    ELSE IF n = 9 THEN <<"\\", "t">>
    ELSE IF n = 11 THEN <<"\\", "v">>
    ELSE IF n < 32 \/ n = 127 THEN <<"\\", "x">> \o Hex2(n)
    ELSE IF n < 65536 THEN <<"\\", "u">> \o Hex4(n)
    ELSE <<"\\", "U">> \o Hex4(n \div 65536) \o Hex4(n % 65536)

RECURSIVE QuotedRunes(_, _)
QuotedRunes(runes, quote) ==
    IF runes = << >> THEN << >>
    ELSE QuotedRune(Head(runes), quote) \o QuotedRunes(Tail(runes), quote)

\* strconv.Quote
Quote(str) == <<"\"">> \o QuotedRunes(Runes(str), "\"") \o <<"\"">>

\* strconv.QuoteRune
QuoteRune(n) == <<"'">> \o QuotedRune(n, "'") \o <<"'">>

\* an argument printed with %v
ArgValue(arg) == IF arg.type = "string" THEN arg.str ELSE Itoa(arg.int)

\* one argument printed with verb
FormatArg(verb, arg) ==
    IF verb = "v" THEN ArgValue(arg)
    ELSE IF verb = "s" /\ arg.type = "string" THEN arg.str
    ELSE IF verb = "q" /\ arg.type = "string" THEN Quote(arg.str)
    ELSE IF verb = "q" /\ arg.type = "int32" THEN QuoteRune(arg.int)
    ELSE IF verb = "d" /\ arg.type # "string" THEN Itoa(arg.int)
    ELSE <<"%", "!", verb, "(">> \o
         (IF arg.type = "string" THEN <<"s", "t", "r", "i", "n", "g">>
          ELSE IF arg.type = "int" THEN <<"i", "n", "t">>
          ELSE <<"i", "n", "t", "3", "2">>)
         \o <<"=">> \o ArgValue(arg) \o <<")">>

RECURSIVE extraArgs(_, _)
extraArgs(args, argNum) ==
    IF argNum > Len(args) THEN << >>
    ELSE (IF args[argNum].type = "string" THEN <<"s", "t", "r", "i", "n", "g">>
          ELSE IF args[argNum].type = "int" THEN <<"i", "n", "t">>
          ELSE <<"i", "n", "t", "3", "2">>)
         \o <<"=">> \o ArgValue(args[argNum])
         \o (IF argNum < Len(args) THEN <<",", " ">> ELSE << >>)
         \o extraArgs(args, argNum + 1)

RECURSIVE doPrintf(_, _, _, _)
doPrintf(format, i, args, argNum) ==
    IF i > Len(format)
    THEN IF argNum <= Len(args)
         THEN <<"%", "!", "(", "E", "X", "T", "R", "A", " ">>
              \o extraArgs(args, argNum) \o <<")">>
         ELSE << >>
    ELSE IF format[i] # "%"
    THEN <<format[i]>> \o doPrintf(format, i + 1, args, argNum)
    ELSE IF i + 1 > Len(format)
    THEN <<"%", "!", "(", "N", "O", "V", "E", "R", "B", ")">>
         \o doPrintf(format, i + 1, args, argNum)
    ELSE IF format[i + 1] = "%"
    THEN <<"%">> \o doPrintf(format, i + 2, args, argNum)
    ELSE IF argNum > Len(args)
    THEN <<"%", "!", format[i + 1], "(", "M", "I", "S", "S", "I", "N", "G", ")">>
         \o doPrintf(format, i + 2, args, argNum)
    ELSE FormatArg(format[i + 1], args[argNum])
         \o doPrintf(format, i + 2, args, argNum + 1)

Sprintf(format, args) == doPrintf(format, 1, args, 1)

(***************************************************************************)
(* Inputs.                                                                 *)
(***************************************************************************)
\* the accumulators of a nested validation: v is the top-level one, s1 a
\* sub-validation of v, s2 a sub-validation of s1 (TestSub)
Validators == {"v", "s1", "s2"}

\* keys passed to Append: the empty key and a one-letter field name
AppendKeys == {<< >>, <<"x">>}

\* parent keys and sub keys passed to Sub
ParentKeys == {<<"x">>}

SubKeys == {<< >>, <<"s">>}

\* format strings and their arguments passed to Append
AppendInputs ==
    { <<(<<"a">>), << >>>>,
      <<(<<"%">>), << >>>>,
      <<(<<"%", "s">>), <<StrArg(<<"a">>)>>>> }

\* texts of the plain (non-Validator) errors passed to Sub
ErrorTexts == {<<"a">>, <<"%">>}

(***************************************************************************)
(* The accumulator: Validator.Errors, a map from key to message list.      *)
(***************************************************************************)
VARIABLES
    Errors,   \* Errors[v]: the field Errors of accumulator v
    call,     \* the last call: operation, receiver, arguments, result
    pre,      \* the value of Errors when the last call started
    prev      \* the call before the last one (kept in the nested scenario)

vars == <<Errors, call, pre, prev>>

\* make(map[string][]string)
EmptyMap == [k \in {} |-> << >>]

\* New()
New == EmptyMap

\* m[k] of a Go map: the zero value (a nil slice) when k is absent
Lookup(m, k) == IF k \in DOMAIN m THEN m[k] ELSE << >>

\* m[k] = val
Store(m, k, val) == [x \in (DOMAIN m) \cup {k} |-> IF x = k THEN val ELSE m[x]]

\* delete(m, k)
Delete(m, k) == [x \in (DOMAIN m) \ {k} |-> m[x]]

\* Append that assigns the new message instead of appending it
Validator_Append_Overwrite(m, key, value, format) ==
    Store(m, key, <<Sprintf(value, format)>>)

\* v.Errors[key] = append(v.Errors[key], fmt.Sprintf(value, format...))
Validator_Append(m, key, value, format) ==
    Store(m, key, Lookup(m, key) \o <<Sprintf(value, format)>>)

\* Pop that returns an empty slice, not nil, for a key without messages
Validator_PopResult_Empty(m, key) == Slice(Lookup(m, key))

\* the return value of Pop
Validator_PopResult(m, key) ==
    IF Len(Lookup(m, key)) = 0 THEN NilSlice ELSE Slice(Lookup(m, key))

\* Pop that empties the list and keeps the key
Validator_Pop_Truncate(m, key) ==
    IF Len(Lookup(m, key)) = 0 THEN m ELSE Store(m, key, << >>)

\* the map after Pop
Validator_Pop(m, key) ==
    IF Len(Lookup(m, key)) = 0 THEN m ELSE Delete(m, key)

\* HasErrors with an off-by-one comparison
Validator_HasErrors_OffByOne(m) == Cardinality(DOMAIN m) > 1

\* len(v.Errors) > 0
Validator_HasErrors(m) == Cardinality(DOMAIN m) > 0

\* ErrorOrNil: the accumulator itself (a *Validator) or nil
Validator_ErrorOrNil(v, m) ==
    IF Validator_HasErrors(m)
    THEN [kind |-> "ptr", of |-> v, text |-> << >>]
    ELSE NilError

\* fmt.Sprintf("%s[%s]", key, subKey)
IndexedKey(key, subKey) ==
    Sprintf(<<"%", "s", "[", "%", "s", "]">>, <<StrArg(key), StrArg(subKey)>>)

\* fmt.Sprintf("%s.%s", key, k)
DottedKey(key, k) ==
    Sprintf(<<"%", "s", ".", "%", "s">>, <<StrArg(key), StrArg(k)>>)

\* the subKey test left out: the key is always indexed
SubKeyOf_AlwaysIndexed(key, subKey) ==
    Sprintf(<<"%", "s", "[", "%", "s", "]">>, <<StrArg(key), StrArg(subKey)>>)

\* the key Sub works with after its subKey test
SubKeyOf(key, subKey) ==
    IF subKey # << >> THEN IndexedKey(key, subKey) ELSE key

\* the loop of Sub assigning the sub-accumulator's list instead of appending it
RECURSIVE SubLoop_Overwrite(_, _, _, _)
SubLoop_Overwrite(m, key, sub, todo) ==
    IF todo = {} THEN m
    ELSE LET k == CHOOSE x \in todo : TRUE
             mk == Sprintf(<<"%", "s", ".", "%", "s">>, <<StrArg(key), StrArg(k)>>)
         IN  SubLoop_Overwrite(Store(m, mk, sub[k]), key, sub, todo \ {k})

\* for k, val := range sub.Errors { mk := ...; v.Errors[mk] = append(v.Errors[mk], val...) }
RECURSIVE SubLoop(_, _, _, _)
SubLoop(m, key, sub, todo) ==
    IF todo = {} THEN m
    ELSE LET k == CHOOSE x \in todo : TRUE
             mk == DottedKey(key, k)
         IN  SubLoop(Store(m, mk, Lookup(m, mk) \o sub[k]), key, sub, todo \ {k})

\* Sub that creates the parent key before looking at the sub-accumulator
Validator_Sub_KeepKey(m, key, subKey, err, all) ==
    IF err = NilError THEN m
    ELSE LET key2 == SubKeyOf(key, subKey)
         IN  IF err.kind # "ptr" /\ err.kind # "val"
             THEN Validator_Append(m, key2, err.text, << >>)
             ELSE SubLoop(Store(m, key2, Lookup(m, key2)), key2,
                          all[err.of], DOMAIN all[err.of])

\* Sub(key, subKey, err): err is nil, a *Validator ("ptr"), a Validator
\* ("val") or any other error ("plain"); all is the value of every
\* accumulator's Errors at the call
Validator_Sub(m, key, subKey, err, all) ==
    IF err = NilError THEN m
    ELSE LET key2 == SubKeyOf(key, subKey)
         IN  IF err.kind # "ptr" /\ err.kind # "val"
             THEN Validator_Append(m, key2, err.text, << >>)
             ELSE IF ~Validator_HasErrors(all[err.of]) THEN m
             ELSE SubLoop(m, key2, all[err.of], DOMAIN all[err.of])

\* the loop of Merge assigning the other list instead of appending it
RECURSIVE MergeLoop_Overwrite(_, _, _)
MergeLoop_Overwrite(m, other, todo) ==
    IF todo = {} THEN m
    ELSE LET k == CHOOSE x \in todo : TRUE
         IN  MergeLoop_Overwrite(Store(m, k, other[k]), other, todo \ {k})

\* the loop of Merge appending only the first message of the other list
\* to a list that is there already
RECURSIVE MergeLoop_FirstOnly(_, _, _)
MergeLoop_FirstOnly(m, other, todo) ==
    IF todo = {} THEN m
    ELSE LET k == CHOOSE x \in todo : TRUE
         IN  MergeLoop_FirstOnly(
                 Store(m, k, IF k \in DOMAIN m THEN m[k] \o <<other[k][1]>> ELSE other[k]),
                 other, todo \ {k})

\* for k, val := range other.Errors { v.Errors[k] = append(v.Errors[k], val...) }
RECURSIVE MergeLoop(_, _, _)
MergeLoop(m, other, todo) ==
    IF todo = {} THEN m
    ELSE LET k == CHOOSE x \in todo : TRUE
         IN  MergeLoop(Store(m, k, Lookup(m, k) \o other[k]), other, todo \ {k})

Validator_Merge(m, other) == MergeLoop(m, other, DOMAIN other)

(***************************************************************************)
(* The calls.  Each one records itself in call and the state it started    *)
(* from in pre.                                                            *)
(***************************************************************************)
\* the accumulators whose errors a caller composes into v
SubValidators(v) ==
    IF v = "v" THEN {"s1"} ELSE IF v = "s1" THEN {"s2"} ELSE {}

\* the error values a caller passes to v.Sub
SubErrors(v) ==
    {NilError}
    \cup {[kind |-> "ptr", of |-> o, text |-> << >>] : o \in SubValidators(v)}
    \cup {[kind |-> "val", of |-> o, text |-> << >>] : o \in SubValidators(v)}
    \cup {[kind |-> "plain", of |-> "v", text |-> t] : t \in ErrorTexts}

\* the keys a caller passes to v.Pop: keys that are present and keys that are not
PopKeys(v) == AppendKeys \cup DOMAIN Errors[v]

RECURSIVE SumLen(_, _)
SumLen(m, todo) ==
    IF todo = {} THEN 0
    ELSE LET k == CHOOSE x \in todo : TRUE
         IN  Len(m[k]) + SumLen(m, todo \ {k})

\* the number of messages in one accumulator
NumMsgs(m) == SumLen(m, DOMAIN m)

\* the number of messages in all accumulators
TotalMsgs(all) == NumMsgs(all["v"]) + NumMsgs(all["s1"]) + NumMsgs(all["s2"])

NoCall ==
    [op |-> "New", v |-> "v", key |-> << >>, subKey |-> << >>, value |-> << >>,
     format |-> << >>, err |-> NilError, other |-> "v",
     errs |-> NilSlice, has |-> FALSE, ret |-> NilError,
     message |-> << >>, labels |-> NilSlice,
     minLabels |-> 0, decoded |-> [str |-> << >>, ok |-> TRUE, label |-> << >>],
     str |-> << >>, left |-> [k \in {} |-> << >>], right |-> [k \in {} |-> << >>],
     isNil |-> FALSE, start |-> [k \in {} |-> << >>], shown |-> {},
     run |-> [pc |-> "start", pos |-> 0, i |-> 0, oldI |-> 0, w |-> 1, k |-> 0,
              bias |-> 0, n |-> 0, output |-> << >>, steps |-> 0, rounds |-> 0,
              at |-> 0, wrapped |-> FALSE]]

Init ==
    /\ Errors = [v \in Validators |-> New]
    /\ call = NoCall
    /\ pre = Errors
    /\ prev = NoCall

CallAppend(v, key, value, format) ==
    /\ Errors' = [Errors EXCEPT ![v] = Validator_Append(@, key, value, format)]
    /\ TotalMsgs(Errors') <= MaxTotalMsgs
    /\ call' = [NoCall EXCEPT !.op = "Append", !.v = v, !.key = key,
                              !.value = value, !.format = format]
    /\ pre' = Errors
    /\ UNCHANGED prev

CallPop(v, key) ==
    /\ Errors' = [Errors EXCEPT ![v] = Validator_Pop(@, key)]
    /\ call' = [NoCall EXCEPT !.op = "Pop", !.v = v, !.key = key,
                              !.errs = Validator_PopResult(Errors[v], key)]
    /\ pre' = Errors
    /\ UNCHANGED prev

CallHasErrors(v) ==
    /\ call' = [NoCall EXCEPT !.op = "HasErrors", !.v = v,
                              !.has = Validator_HasErrors(Errors[v])]
    /\ pre' = Errors
    /\ UNCHANGED <<Errors, prev>>

CallErrorOrNil(v) ==
    /\ call' = [NoCall EXCEPT !.op = "ErrorOrNil", !.v = v,
                              !.ret = Validator_ErrorOrNil(v, Errors[v])]
    /\ pre' = Errors
    /\ UNCHANGED <<Errors, prev>>

CallSub(v, key, subKey, err) ==
    /\ Errors' = [Errors EXCEPT ![v] = Validator_Sub(@, key, subKey, err, Errors)]
    /\ TotalMsgs(Errors') <= MaxTotalMsgs
    /\ call' = [NoCall EXCEPT !.op = "Sub", !.v = v, !.key = key,
                              !.subKey = subKey, !.err = err]
    /\ pre' = Errors
    /\ UNCHANGED prev

CallMerge(v, other) ==
    /\ Errors' = [Errors EXCEPT ![v] = Validator_Merge(@, Errors[other])]
    /\ TotalMsgs(Errors') <= MaxTotalMsgs
    /\ call' = [NoCall EXCEPT !.op = "Merge", !.v = v, !.other = other]
    /\ pre' = Errors
    /\ UNCHANGED prev

\* one validation pass: the sub-validation s1 collects and drops messages,
\* the top-level v does the same and takes in the errors of s1 (s2 is unused
\* and stays empty)
Next ==
    \/ \E v \in {"v", "s1"}, key \in AppendKeys, in \in AppendInputs :
            CallAppend(v, key, in[1], in[2])
    \/ \E v \in {"v", "s1"} : \E key \in PopKeys(v) : CallPop(v, key)
    \/ \E v \in {"v", "s1"} : CallHasErrors(v)
    \/ \E v \in {"v", "s1"} : CallErrorOrNil(v)
    \/ \E key \in ParentKeys, subKey \in SubKeys, err \in SubErrors("v") :
            CallSub("v", key, subKey, err)
    \/ CallMerge("v", "s1")

Spec == Init /\ [][Next]_vars

(***************************************************************************)
(* The nested validation of TestSub ("Sub with Sub"): s2 collects          *)
(* messages, s1 takes in the errors of s2 and v those of s1.  The call     *)
(* before the last one is kept in prev.                                    *)
(***************************************************************************)
NestedAppend(v, key, value, format) ==
    /\ Errors' = [Errors EXCEPT ![v] = Validator_Append(@, key, value, format)]
    /\ TotalMsgs(Errors') <= MaxTotalMsgs
    /\ call' = [NoCall EXCEPT !.op = "Append", !.v = v, !.key = key,
                              !.value = value, !.format = format]
    /\ pre' = Errors
    /\ prev' = call

NestedSub(v, key, subKey, err) ==
    /\ Errors' = [Errors EXCEPT ![v] = Validator_Sub(@, key, subKey, err, Errors)]
    /\ TotalMsgs(Errors') <= MaxTotalMsgs
    /\ call' = [NoCall EXCEPT !.op = "Sub", !.v = v, !.key = key,
                              !.subKey = subKey, !.err = err]
    /\ pre' = Errors
    /\ prev' = call

\* the accumulator-shaped error values a caller passes to v.Sub
ValidatorErrors(v) ==
    {[kind |-> kind, of |-> o, text |-> << >>] :
        kind \in {"ptr", "val"}, o \in SubValidators(v)}

NextNested ==
    \/ \E v \in Validators, key \in AppendKeys, in \in AppendInputs :
            NestedAppend(v, key, in[1], in[2])
    \/ \E v \in {"v", "s1"}, key \in ParentKeys, subKey \in SubKeys :
            \E err \in ValidatorErrors(v) : NestedSub(v, key, subKey, err)

SpecNested == Init /\ [][NextNested]_vars

(***************************************************************************)
(* Strings of the domain validator.                                        *)
(***************************************************************************)
\* strings.HasPrefix
HasPrefix(str, prefix) ==
    Len(str) >= Len(prefix) /\ SubSeq(str, 1, Len(prefix)) = prefix

\* strings.LastIndex for a separator of one character: an index from 0, or -1
LastIndex(str, c) ==
    IF \E i \in 1..Len(str) : str[i] = c
    THEN (CHOOSE i \in 1..Len(str) :
              str[i] = c /\ \A j \in (i + 1)..Len(str) : str[j] # c) - 1
    ELSE -1

\* strings.Split for a separator of one character: the parts from start on
RECURSIVE SplitFrom(_, _, _)
SplitFrom(str, c, start) ==
    LET seps == {i \in start..Len(str) : str[i] = c}
        next == CHOOSE i \in seps : \A j \in seps : i <= j
    IN  IF seps = {} THEN <<SubSeq(str, start, Len(str))>>
        ELSE <<SubSeq(str, start, next - 1)>> \o SplitFrom(str, c, next + 1)

\* Split that cuts at the first separator only
Split_AtFirst(str, c) ==
    LET seps == {i \in 1..Len(str) : str[i] = c}
        first == CHOOSE i \in seps : \A j \in seps : i <= j
    IN  IF seps = {} THEN <<str>>
        ELSE <<SubSeq(str, 1, first - 1), SubSeq(str, first + 1, Len(str))>>

Split(str, c) == SplitFrom(str, c, 1)

\* unicode.IsLetter for the runes up to MaxInputRune (Latin-1)
IsLetter(n) ==
    IF n <= 255
    THEN \/ (65 <= n /\ n <= 90) \/ (97 <= n /\ n <= 122)
         \/ n = 170 \/ n = 181 \/ n = 186
         \/ (192 <= n /\ n <= 214) \/ (216 <= n /\ n <= 246)
         \/ (248 <= n /\ n <= 255)
    ELSE CHOOSE b \in {} : TRUE

\* unicode.IsDigit for the runes up to MaxInputRune (Latin-1)
IsDigit(n) ==
    IF n <= 255 THEN 48 <= n /\ n <= 57 ELSE CHOOSE b \in {} : TRUE

(***************************************************************************)
(* punycode.go.  All computation is done with int32: a sum wraps around;   *)
(* the products stay below 2^31 (a product that did not would stop the     *)
(* evaluation).  Positions are counted in characters: every character      *)
(* the decoder reads after the last hyphen is one byte or ends the         *)
(* decoding, so the comparisons of pos with len(encoded) come out as they  *)
(* do for byte positions.                                                  *)
(***************************************************************************)
base == 36

damp == 700

initialBias == 72

initialN == 128

skew == 38

tmax == 26

tmin == 1

\* math.MaxInt32
MaxInt32 == 2147483647

\* utf8.MaxRune
MaxRune == 1114111

\* utf8.RuneError
RuneError == 65533

\* the cap of punyDecode on the length of its output
MaxOutput == 1024

\* a + b in int32
Add32(a, b) ==
    IF b > 0 /\ a > MaxInt32 - b
    THEN (a - MaxInt32 - 1) + (b - MaxInt32 - 1)
    ELSE IF b < 0 /\ a < (-MaxInt32 - 1) - b
    THEN (a + MaxInt32 + 1) + (b + MaxInt32 + 1)
    ELSE a + b

\* a / b of Go for b > 0: the quotient truncated toward zero
Quo(a, b) == IF a >= 0 THEN a \div b ELSE -((-a) \div b)

\* a % b of Go for b > 0: the remainder has the sign of a
Rem(a, b) == a - (b * Quo(a, b))

\* a result of punyDecode without an error
Decoded(str) == [str |-> str, ok |-> TRUE, label |-> << >>]

\* punyError that drops the label
punyError_NoLabel(encoded) == [str |-> << >>, ok |-> FALSE, label |-> << >>]

\* return "", punyError(encoded): the error holds the text it was given
punyError(encoded) == [str |-> << >>, ok |-> FALSE, label |-> encoded]

punyDecodeDigit(x) ==
    LET n == IF x \in DOMAIN AsciiOrd THEN AsciiOrd[x] ELSE 128
    IN  IF 48 <= n /\ n <= 57 THEN [digit |-> n - (48 - 26), ok |-> TRUE]
        ELSE IF 65 <= n /\ n <= 90 THEN [digit |-> n - 65, ok |-> TRUE]
        ELSE IF 97 <= n /\ n <= 122 THEN [digit |-> n - 97, ok |-> TRUE]
        ELSE [digit |-> 0, ok |-> FALSE]

\* for delta > ((base-tmin)*tmax)/2 { delta /= base - tmin; k += base }
RECURSIVE punyAdaptLoop(_, _)
punyAdaptLoop(delta, k) ==
    IF delta > Quo((base - tmin) * tmax, 2)
    THEN punyAdaptLoop(Quo(delta, base - tmin), Add32(k, base))
    ELSE [delta |-> delta, k |-> k]

punyAdapt(delta, numPoints, firstTime) ==
    LET d1 == IF firstTime THEN Quo(delta, damp) ELSE Quo(delta, 2)
        d2 == Add32(d1, Quo(d1, numPoints))
        r == punyAdaptLoop(d2, 0)
    IN  Add32(r.k, Quo((base - tmin + 1) * r.delta, Add32(r.delta, skew)))

\* for k := base; ; k += base { ... }: the digits of one delta
RECURSIVE punyDecodeDelta(_, _, _, _, _, _)
punyDecodeDelta(encoded, pos, i, w, k, bias) ==
    IF pos = Len(encoded) THEN [ok |-> FALSE, pos |-> pos, i |-> i]
    ELSE LET d == punyDecodeDigit(encoded[pos + 1])
             i2 == Add32(i, d.digit * w)
             t0 == Add32(k, -bias)
             t == IF t0 < tmin THEN tmin ELSE IF t0 > tmax THEN tmax ELSE t0
             w2 == w * (base - t)
         IN  IF ~d.ok THEN [ok |-> FALSE, pos |-> pos, i |-> i]
             ELSE IF i2 < 0 THEN [ok |-> FALSE, pos |-> pos + 1, i |-> i2]
             ELSE IF d.digit < t THEN [ok |-> TRUE, pos |-> pos + 1, i |-> i2]
             ELSE IF w2 >= Quo(MaxInt32, base)
             THEN [ok |-> FALSE, pos |-> pos + 1, i |-> i2]
             ELSE punyDecodeDelta(encoded, pos + 1, i2, w2, Add32(k, base), bias)

\* string(output): a rune that is not valid is written as utf8.RuneError
RuneString(output) ==
    [j \in 1..Len(output) |->
        IF output[j] < 0 \/ output[j] > MaxRune
           \/ (55296 <= output[j] /\ output[j] <= 57343)
        THEN Chr(RuneError) ELSE Chr(output[j])]

\* for pos < len(encoded) { ... }: one code point inserted per round
RECURSIVE punyDecodeLoop(_, _, _, _, _, _)
punyDecodeLoop(encoded, pos, i, n, bias, output) ==
    IF ~(pos < Len(encoded)) THEN Decoded(RuneString(output))
    ELSE LET r == punyDecodeDelta(encoded, pos, i, 1, base, bias)
             x == Len(output) + 1
             bias2 == punyAdapt(Add32(r.i, -i), x, i = 0)
             n2 == Add32(n, Quo(r.i, x))
             i2 == Rem(r.i, x)
         IN  IF ~r.ok THEN punyError(encoded)
             ELSE IF n2 > MaxRune \/ Len(output) >= MaxOutput
             THEN punyError(encoded)
             ELSE punyDecodeLoop(encoded, r.pos, Add32(i2, 1), n2, bias2,
                      SubSeq(output, 1, i2) \o <<n2>>
                          \o SubSeq(output, i2 + 1, Len(output)))

punyDecode(encoded) ==
    IF encoded = << >> THEN Decoded(<< >>)
    ELSE LET pos == 1 + LastIndex(encoded, "-")
         IN  IF pos = 1 THEN punyError(encoded)
             ELSE IF pos = Len(encoded)
             THEN Decoded(SubSeq(encoded, 1, Len(encoded) - 1))
             ELSE punyDecodeLoop(encoded, pos, 0, initialN, initialBias,
                      IF pos # 0 THEN Runes(SubSeq(encoded, 1, pos - 1))
                      ELSE << >>)

(***************************************************************************)
(* validators.go: Domain, Hostname and validDomain.                        *)
(***************************************************************************)
\* an error that is not an accumulator, with its text
PlainError(text) == [kind |-> "plain", of |-> "v", text |-> text]

\* DefaultMessages.Domain
MessageDomain == <<"m", "u", "s", "t", " ", "b", "e", " ", "a", " ", "v", "a", "l", "i", "d", " ", "d", "o", "m", "a", "i", "n">>

\* DefaultMessages.Hostname
MessageHostname == <<"m", "u", "s", "t", " ", "b", "e", " ", "a", " ", "v", "a", "l", "i", "d", " ", "h", "o", "s", "t", "n", "a", "m", "e">>

\* getMessage for at most one message (with more it panics: the calls
\* below are not enabled then)
getMessage(in, default) == IF Len(in) = 0 THEN default ELSE in[1]

\* the reasons validDomain gives
ReasonTooShort == <<"t", "o", "o", " ", "s", "h", "o", "r", "t">>

ReasonNeedLabels == <<"n", "e", "e", "d", " ", "a", "t", " ", "l", "e", "a", "s", "t", " ", "%", "d", " ", "l", "a", "b", "e", "l", "s">>

ReasonLabelTooLong == <<"l", "a", "b", "e", "l", " ", "i", "s", " ", "l", "o", "n", "g", "e", "r", " ", "t", "h", "a", "n", " ", "6", "3", " ", "b", "y", "t", "e", "s">>

ReasonNotPunycode == <<"n", "o", "t", " ", "v", "a", "l", "i", "d", " ", "p", "u", "n", "y", "c", "o", "d", "e", ":", " ", "%", "q">>

ReasonInvalidCharacter == <<"i", "n", "v", "a", "l", "i", "d", " ", "c", "h", "a", "r", "a", "c", "t", "e", "r", ":", " ", "%", "q">>

ReasonDomainTooLong == <<"d", "o", "m", "a", "i", "n", " ", "i", "s", " ", "l", "o", "n", "g", "e", "r", " ", "t", "h", "a", "n", " ", "2", "5", "5", " ", "b", "y", "t", "e", "s">>

\* the character loop letting the underscore pass
BadRunes_Underscore(l) ==
    {j \in 1..Len(l) :
        ~IsLetter(Ord(l[j])) /\ ~IsDigit(Ord(l[j])) /\ Ord(l[j]) # 45
            /\ Ord(l[j]) # 95}

\* the positions of the characters of a label the character loop rejects
BadRunes(l) ==
    {j \in 1..Len(l) :
        ~IsLetter(Ord(l[j])) /\ ~IsDigit(Ord(l[j])) /\ Ord(l[j]) # 45}

\* the label loop refusing a label of 63 bytes
RECURSIVE validLabels_From63(_, _, _)
validLabels_From63(labels, i, total) ==
    IF i > Len(labels)
    THEN IF total > 255
         THEN [labels |-> NilSlice,
               err |-> PlainError(Sprintf(ReasonDomainTooLong, << >>))]
         ELSE [labels |-> Slice(labels), err |-> NilError]
    ELSE LET l == labels[i]
             isPuny == HasPrefix(l, <<"x", "n", "-", "-">>)
             dec == punyDecode(SubSeq(l, 5, Len(l)))
             l2 == IF isPuny THEN dec.str ELSE l
             bad == BadRunes(l2)
             c == Ord(l2[CHOOSE j \in bad : \A j2 \in bad : j <= j2])
         IN  IF ByteLen(l) >= 63
             THEN [labels |-> NilSlice,
                   err |-> PlainError(ReasonLabelTooLong)]
             ELSE IF isPuny /\ ~dec.ok
             THEN [labels |-> NilSlice,
                   err |-> PlainError(Sprintf(ReasonNotPunycode,
                                              <<StrArg(dec.str)>>))]
             ELSE IF bad # {}
             THEN [labels |-> NilSlice,
                   err |-> PlainError(Sprintf(ReasonInvalidCharacter,
                                              <<RuneArg(c)>>))]
             ELSE validLabels_From63([labels EXCEPT ![i] = l2], i + 1,
                              total + ByteLen(l))

\* the label loop refusing a total of 255 bytes
RECURSIVE validLabels_From255(_, _, _)
validLabels_From255(labels, i, total) ==
    IF i > Len(labels)
    THEN IF total >= 255
         THEN [labels |-> NilSlice,
               err |-> PlainError(Sprintf(ReasonDomainTooLong, << >>))]
         ELSE [labels |-> Slice(labels), err |-> NilError]
    ELSE LET l == labels[i]
             isPuny == HasPrefix(l, <<"x", "n", "-", "-">>)
             dec == punyDecode(SubSeq(l, 5, Len(l)))
             l2 == IF isPuny THEN dec.str ELSE l
             bad == BadRunes(l2)
             c == Ord(l2[CHOOSE j \in bad : \A j2 \in bad : j <= j2])
         IN  IF ByteLen(l) > 63
             THEN [labels |-> NilSlice,
                   err |-> PlainError(ReasonLabelTooLong)]
             ELSE IF isPuny /\ ~dec.ok
             THEN [labels |-> NilSlice,
                   err |-> PlainError(Sprintf(ReasonNotPunycode,
                                              <<StrArg(dec.str)>>))]
             ELSE IF bad # {}
             THEN [labels |-> NilSlice,
                   err |-> PlainError(Sprintf(ReasonInvalidCharacter,
                                              <<RuneArg(c)>>))]
             ELSE validLabels_From255([labels EXCEPT ![i] = l2], i + 1,
                              total + ByteLen(l))

\* the label loop looking at the characters of a label before its length
RECURSIVE validLabels_CharactersFirst(_, _, _)
validLabels_CharactersFirst(labels, i, total) ==
    IF i > Len(labels)
    THEN IF total > 255
         THEN [labels |-> NilSlice,
               err |-> PlainError(Sprintf(ReasonDomainTooLong, << >>))]
         ELSE [labels |-> Slice(labels), err |-> NilError]
    ELSE LET l == labels[i]
             isPuny == HasPrefix(l, <<"x", "n", "-", "-">>)
             dec == punyDecode(SubSeq(l, 5, Len(l)))
             l2 == IF isPuny THEN dec.str ELSE l
             bad == BadRunes(l2)
             c == Ord(l2[CHOOSE j \in bad : \A j2 \in bad : j <= j2])
         IN  IF bad # {}
             THEN [labels |-> NilSlice,
                   err |-> PlainError(Sprintf(ReasonInvalidCharacter,
                                              <<RuneArg(c)>>))]
             ELSE IF ByteLen(l) > 63
             THEN [labels |-> NilSlice,
                   err |-> PlainError(ReasonLabelTooLong)]
             ELSE IF isPuny /\ ~dec.ok
             THEN [labels |-> NilSlice,
                   err |-> PlainError(Sprintf(ReasonNotPunycode,
                                              <<StrArg(dec.str)>>))]
             ELSE validLabels_CharactersFirst([labels EXCEPT ![i] = l2], i + 1,
                              total + ByteLen(l))

\* the label loop of validDomain from label i on, and the test of the total
RECURSIVE validLabels(_, _, _)
validLabels(labels, i, total) ==
    IF i > Len(labels)
    THEN IF total > 255
         THEN [labels |-> NilSlice,
               err |-> PlainError(Sprintf(ReasonDomainTooLong, << >>))]
         ELSE [labels |-> Slice(labels), err |-> NilError]
    ELSE LET l == labels[i]
             isPuny == HasPrefix(l, <<"x", "n", "-", "-">>)
             dec == punyDecode(SubSeq(l, 5, Len(l)))
             l2 == IF isPuny THEN dec.str ELSE l
             bad == BadRunes(l2)
             c == Ord(l2[CHOOSE j \in bad : \A j2 \in bad : j <= j2])
         IN  IF ByteLen(l) > 63
             THEN [labels |-> NilSlice,
                   err |-> PlainError(ReasonLabelTooLong)]
             ELSE IF isPuny /\ ~dec.ok
             THEN [labels |-> NilSlice,
                   err |-> PlainError(Sprintf(ReasonNotPunycode,
                                              <<StrArg(dec.str)>>))]
             ELSE IF bad # {}
             THEN [labels |-> NilSlice,
                   err |-> PlainError(Sprintf(ReasonInvalidCharacter,
                                              <<RuneArg(c)>>))]
             ELSE validLabels([labels EXCEPT ![i] = l2], i + 1,
                              total + ByteLen(l))

\* validDomain that asks for more than minLabels labels
validDomain_OneMore(value, minLabels) ==
    IF ByteLen(value) < 3 \/ value[1] = "."
    THEN [labels |-> NilSlice, err |-> PlainError(Sprintf(ReasonTooShort, << >>))]
    ELSE LET value2 == IF value[Len(value)] = "."
                       THEN SubSeq(value, 1, Len(value) - 1) ELSE value
             labels == Split(value2, ".")
         IN  IF Len(labels) <= minLabels
             THEN [labels |-> NilSlice,
                   err |-> PlainError(Sprintf(ReasonNeedLabels,
                                              <<IntArg(minLabels)>>))]
             ELSE validLabels(labels, 1, 0)

\* validDomain that only looks at the length before it splits
validDomain_LengthOnly(value, minLabels) ==
    IF ByteLen(value) < 3
    THEN [labels |-> NilSlice, err |-> PlainError(Sprintf(ReasonTooShort, << >>))]
    ELSE LET value2 == IF value[Len(value)] = "."
                       THEN SubSeq(value, 1, Len(value) - 1) ELSE value
             labels == Split(value2, ".")
         IN  IF Len(labels) < minLabels
             THEN [labels |-> NilSlice,
                   err |-> PlainError(Sprintf(ReasonNeedLabels,
                                              <<IntArg(minLabels)>>))]
             ELSE validLabels(labels, 1, 0)

validDomain(value, minLabels) ==
    IF ByteLen(value) < 3 \/ value[1] = "."
    THEN [labels |-> NilSlice, err |-> PlainError(Sprintf(ReasonTooShort, << >>))]
    ELSE LET value2 == IF value[Len(value)] = "."
                       THEN SubSeq(value, 1, Len(value) - 1) ELSE value
             labels == Split(value2, ".")
         IN  IF Len(labels) < minLabels
             THEN [labels |-> NilSlice,
                   err |-> PlainError(Sprintf(ReasonNeedLabels,
                                              <<IntArg(minLabels)>>))]
             ELSE validLabels(labels, 1, 0)

\* v.Append(key, fmt.Sprintf("%s: %s", msg, err)) when err is not nil
AppendDomainError(m, key, msg, err) ==
    IF err # NilError
    THEN Validator_Append(m, key,
             Sprintf(<<"%", "s", ":", " ", "%", "s">>, <<StrArg(msg), StrArg(err.text)>>), << >>)
    ELSE m

\* the map after v.Domain(key, value, message...)
Validator_Domain(m, key, value, message) ==
    IF value = << >> THEN m
    ELSE AppendDomainError(m, key, getMessage(message, MessageDomain),
                           validDomain(value, 2).err)

\* the return value of Domain
Validator_DomainResult(value) ==
    IF value = << >> THEN NilSlice ELSE validDomain(value, 2).labels

\* the map after v.Hostname(key, value, message...)
Validator_Hostname(m, key, value, message) ==
    IF value = << >> THEN m
    ELSE AppendDomainError(m, key, getMessage(message, MessageHostname),
                           validDomain(value, 1).err)

\* the return value of Hostname
Validator_HostnameResult(value) ==
    IF value = << >> THEN NilSlice ELSE validDomain(value, 1).labels

(***************************************************************************)
(* The validation of domains and hostnames on the accumulator v.           *)
(***************************************************************************)
\* largest number of messages v holds in the validation of domains
MaxDomainMsgs == 1

\* str repeated n times
RECURSIVE Repeat(_, _)
Repeat(str, n) == IF n = 0 THEN << >> ELSE str \o Repeat(str, n - 1)

\* the values validated: empty, too short, one label, two labels, a
\* trailing dot, an empty label, characters outside the class, punycode
\* that decodes and punycode that does not, labels of 63 and 64 bytes,
\* labels of 255 and 256 bytes in total
DomainValues ==
    { << >>, <<"a", "b">>, <<".", "a", "b">>, <<"a", ".">>, <<"a", "-", "b">>, <<"o", "n", "e", "-", "l", "a", "b", "e", "l">>, <<"a", "b", "c", ".">>, <<"a", ".", "b">>, <<"a", ".", "b", ".">>,
      <<"a", ".", ".", "b">>, <<"a", "_", "b", ".", "c">>, <<"a", ".", "%">>, <<"a", " ", "b">>, <<"x", "n", "-", "-", "b", "c", "h", "e", "r", "-", "k", "v", "a", ".", "e", "x", "a", "m", "p", "l", "e">>, <<"x", "n", "-", "-", "a", "-", ".", "b">>,
      <<"x", "n", "-", "-", "-", ".", "b">>, <<"x", "n", "-", "-", "a", ".", "b">>, <<"x", "n", "-", "-", ".", "a", "b">>,
      Repeat(<<"a">>, 63) \o <<".", "b">>, Repeat(<<"a">>, 64) \o <<".", "b">>,
      Repeat(Repeat(<<"a">>, 63) \o <<".">>, 4) \o <<"a", "b", "c">>,
      Repeat(Repeat(<<"a">>, 63) \o <<".">>, 4) \o <<"a", "b", "c", "d">> }

\* the message arguments: none, or one message of the caller
DomainMessages == {<< >>, <<(<<"m">>)>>}

\* the values validated with a message of the caller
MessageValues == {<<"a", "-", "b">>, <<"a", ".", "b">>}

\* the pairs of a value and the message arguments passed with it
DomainInputs ==
    {in \in DomainValues \X DomainMessages :
        in[2] = << >> \/ in[1] \in MessageValues}

CallDomain(v, key, value, message) ==
    /\ Len(message) <= 1
    /\ Errors' = [Errors EXCEPT ![v] = Validator_Domain(@, key, value, message)]
    /\ NumMsgs(Errors'[v]) <= MaxDomainMsgs
    /\ call' = [NoCall EXCEPT !.op = "Domain", !.v = v, !.key = key,
                              !.value = value, !.message = message,
                              !.labels = Validator_DomainResult(value)]
    /\ pre' = Errors
    /\ UNCHANGED prev

CallHostname(v, key, value, message) ==
    /\ Len(message) <= 1
    /\ Errors' = [Errors EXCEPT ![v] = Validator_Hostname(@, key, value, message)]
    /\ NumMsgs(Errors'[v]) <= MaxDomainMsgs
    /\ call' = [NoCall EXCEPT !.op = "Hostname", !.v = v, !.key = key,
                              !.value = value, !.message = message,
                              !.labels = Validator_HostnameResult(value)]
    /\ pre' = Errors
    /\ UNCHANGED prev

\* one validation pass over a form: fields are validated as domains and as
\* hostnames under the key x, and the messages of a key are taken out
NextDomain ==
    \/ \E key \in ParentKeys, in \in DomainInputs :
            CallDomain("v", key, in[1], in[2])
    \/ \E key \in ParentKeys, in \in DomainInputs :
            CallHostname("v", key, in[1], in[2])
    \/ \E key \in PopKeys("v") : CallPop("v", key)

SpecDomain == Init /\ [][NextDomain]_vars

(***************************************************************************)
(* validDomain on its own: the values are made of labels.                  *)
(***************************************************************************)
\* largest number of labels of a value made of short labels
MaxLabels == 3

\* largest number of labels of 63 bytes in a long value
MaxFullLabels == 4

\* strings.Join(labels, ".")
RECURSIVE Join(_)
Join(labels) ==
    IF Len(labels) = 0 THEN << >>
    ELSE IF Len(labels) = 1 THEN labels[1]
    ELSE labels[1] \o <<".">> \o Join(Tail(labels))

\* short labels: empty, letters, digits and hyphens, a Latin-1 letter, an
\* underscore, hyphens at both ends, punycode that decodes to a letter, to
\* a control character and not at all
ShortLabels ==
    { << >>, <<"a">>, <<"b", "-", "1">>, <<"252">>, <<"a", "_", "b">>, <<"-", "a", "-">>, <<"x", "n", "-", "-", "b", "c", "h", "e", "r", "-", "k", "v", "a">>, <<"x", "n", "-", "-", "a">>, <<"x", "n", "-", "-", "-">> }

\* the values of up to MaxLabels short labels, with and without a dot at the end
ShortValues ==
    LET joined == UNION {{Join(ls) : ls \in [1..n -> ShortLabels]} : n \in 1..MaxLabels}
    IN  joined \cup {value \o <<".">> : value \in joined}

\* the lengths of the last label of a long value
TailLens == {1, 2, 3, 4, 62, 63, 64, 65}

\* the values of up to MaxFullLabels labels of 63 bytes and one more label,
\* as they are and after a dot
LongValues ==
    LET plain == {Repeat(Repeat(<<"a">>, 63) \o <<".">>, k) \o Repeat(<<"a">>, t) :
                      k \in 0..MaxFullLabels, t \in TailLens}
    IN  plain \cup {<<".">> \o value : value \in plain}

\* labels with one fault and with two: an invalid character, 64 bytes, 64
\* bytes with an invalid character, punycode that does not decode, with
\* an invalid character too, and of 64 bytes
FaultyLabels ==
    { <<"a">>, <<"a", "_", "b">>, Repeat(<<"a">>, 64),
      Repeat(<<"a">>, 63) \o <<"_">>,
      <<"x", "n", "-", "-", "-">>, <<"x", "n", "-", "-", "_">>,
      <<"x", "n", "-", "-">> \o Repeat(<<"_">>, 60) }

\* the values of two such labels, and values of more than 255 bytes in
\* their labels whose last label has a fault of its own
FaultyValues ==
    {l1 \o <<".">> \o l2 : l1 \in FaultyLabels, l2 \in FaultyLabels}
        \cup {Repeat(Repeat(<<"a">>, 63) \o <<".">>, MaxFullLabels) \o <<"a", "a", "a", "a", ".">> \o l :
                  l \in FaultyLabels}

\* the values passed to validDomain
ValidDomainValues == (ShortValues \cup LongValues) \cup FaultyValues

\* a value and the least number of labels are chosen: validDomain is
\* called by Domain with 2 and by Hostname with 1
InitValidDomain ==
    /\ Errors = [v \in Validators |-> New]
    /\ pre = Errors
    /\ prev = NoCall
    /\ \E value \in ValidDomainValues \ {<< >>}, minLabels \in {1, 2} :
           call = [NoCall EXCEPT !.op = "input", !.value = value,
                                 !.minLabels = minLabels]

\* labels, err := validDomain(value, minLabels)
CallValidDomain ==
    /\ call.op = "input"
    /\ call' = [call EXCEPT !.op = "validDomain",
                            !.labels = validDomain(call.value, call.minLabels).labels,
                            !.err = validDomain(call.value, call.minLabels).err]
    /\ UNCHANGED <<Errors, pre, prev>>

SpecValidDomain == InitValidDomain /\ [][CallValidDomain]_vars

(***************************************************************************)
(* punyDecode on its own.                                                  *)
(***************************************************************************)
\* largest length of an encoded text made of the characters below
MaxEncodedLen == 4

\* the characters of the encoded texts: digits of the values 0, 1, 25 and
\* 35, an upper-case digit, the delimiter, a character that is no digit
\* and a letter that is not ASCII
EncodedChars == {"a", "b", "z", "9", "A", "-", "_", "252"}

\* the encoded texts of up to MaxEncodedLen characters
ShortEncoded == UNION {[1..n -> EncodedChars] : n \in 0..MaxEncodedLen}

\* longer encoded texts: the label of TestDomain, a text whose code point
\* is above utf8.MaxRune, two whose weight passes the limit, one whose sum
\* i passes the largest int32, and one of 1024 basic characters and one
\* more code point
LongEncoded ==
    { <<"b", "c", "h", "e", "r", "-", "k", "v", "a">>, <<"9", "9", "9", "9", "z">>, <<"9", "9", "9", "9", "9", "9", "9">>,
      <<"a", "9", "a", "z", "9", "k", "9", "9", "9", "9", "9", "9", "9", "9">>,
      <<"b", "b", "0", "0", "0", "0", "0", "7", "3", "3", "7", "2", "v">>,
      [j \in 1..MaxOutput |-> "a"] \o <<"-", "a">> }

\* an encoded text is chosen
InitPunyDecode ==
    /\ Errors = [v \in Validators |-> New]
    /\ pre = Errors
    /\ prev = NoCall
    /\ \E encoded \in ShortEncoded \cup LongEncoded :
           call = [NoCall EXCEPT !.op = "input", !.value = encoded]

\* str, err := punyDecode(encoded)
CallPunyDecode ==
    /\ call.op = "input"
    /\ call' = [call EXCEPT !.op = "punyDecode",
                            !.decoded = punyDecode(call.value)]
    /\ UNCHANGED <<Errors, pre, prev>>

SpecPunyDecode == InitPunyDecode /\ [][CallPunyDecode]_vars

(***************************************************************************)
(* punyDecode step by step: the loops of the decoder as a state machine.   *)
(* call.run holds the local variables; pc is "start" before the first      *)
(* statement, "loop" at the test of the outer loop, "digits" at the top of  *)
(* the inner loop, "insert" after its break and "return" after a return.   *)
(* steps counts the digits read and rounds the code points inserted;       *)
(* wrapped tells that a sum or product of the last step left int32.        *)
(***************************************************************************)
\* a * c in int32 for a small c >= 0: the two halves of a are multiplied
\* apart, and what the upper half carries past 32 bits is dropped
Mul32(a, c) ==
    LET hi == ((a \div 65536) * c) % 65536
        lo == (a % 65536) * c
    IN  Add32((IF hi >= 32768 THEN hi - 65536 ELSE hi) * 65536, lo)

\* a + b leaves int32
AddWraps(a, b) ==
    \/ b > 0 /\ a > MaxInt32 - b
    \/ b < 0 /\ a < (-MaxInt32 - 1) - b

\* a * c leaves int32, for a >= 0 and c >= 0
MulWraps(a, c) == c > 0 /\ a > MaxInt32 \div c

\* the statements before the loops
punyDecodeStart(encoded, r) ==
    LET pos == 1 + LastIndex(encoded, "-")
    IN  IF encoded = << >>
        THEN [run |-> [r EXCEPT !.pc = "return"], decoded |-> Decoded(<< >>)]
        ELSE IF pos = 1
        THEN [run |-> [r EXCEPT !.pc = "return", !.pos = pos],
              decoded |-> punyError(encoded)]
        ELSE IF pos = Len(encoded)
        THEN [run |-> [r EXCEPT !.pc = "return", !.pos = pos],
              decoded |-> Decoded(SubSeq(encoded, 1, Len(encoded) - 1))]
        ELSE [run |-> [r EXCEPT !.pc = "loop", !.pos = pos, !.i = 0,
                                !.n = initialN, !.bias = initialBias,
                                !.output = IF pos # 0
                                           THEN Runes(SubSeq(encoded, 1, pos - 1))
                                           ELSE << >>],
              decoded |-> Decoded(<< >>)]

\* for pos < len(encoded) { oldI, w := i, int32(1); for k := base; ...
\* and the return after the loop
punyDecodeLoopTest(encoded, r) ==
    IF r.pos < Len(encoded)
    THEN [run |-> [r EXCEPT !.pc = "digits", !.oldI = r.i, !.w = 1, !.k = base],
          decoded |-> Decoded(<< >>)]
    ELSE [run |-> [r EXCEPT !.pc = "return"],
          decoded |-> Decoded(RuneString(r.output))]

\* one round of the inner loop that does not move on in the input
punyDecodeDigitStep_NoAdvance(encoded, r) ==
    IF r.pos = Len(encoded)
    THEN [run |-> [r EXCEPT !.pc = "return"], decoded |-> punyError(encoded)]
    ELSE
    LET d == punyDecodeDigit(encoded[r.pos + 1])
        i2 == Add32(r.i, Mul32(r.w, d.digit))
        t0 == Add32(r.k, -r.bias)
        t == IF t0 < tmin THEN tmin ELSE IF t0 > tmax THEN tmax ELSE t0
        w2 == Mul32(r.w, base - t)
        read == [r EXCEPT !.steps = r.steps + 1]
    IN  IF ~d.ok
        THEN [run |-> [read EXCEPT !.pc = "return"], decoded |-> punyError(encoded)]
        ELSE IF i2 < 0
        THEN [run |-> [read EXCEPT !.pc = "return", !.i = i2],
              decoded |-> punyError(encoded)]
        ELSE IF d.digit < t
        THEN [run |-> [read EXCEPT !.pc = "insert", !.i = i2],
              decoded |-> Decoded(<< >>)]
        ELSE IF w2 >= Quo(MaxInt32, base)
        THEN [run |-> [read EXCEPT !.pc = "return", !.i = i2, !.w = w2],
              decoded |-> punyError(encoded)]
        ELSE [run |-> [read EXCEPT !.i = i2, !.w = w2, !.k = Add32(r.k, base)],
              decoded |-> Decoded(<< >>)]

\* one round of the inner loop without the test of the weight
punyDecodeDigitStep_NoWeightTest(encoded, r) ==
    IF r.pos = Len(encoded)
    THEN [run |-> [r EXCEPT !.pc = "return"], decoded |-> punyError(encoded)]
    ELSE
    LET d == punyDecodeDigit(encoded[r.pos + 1])
        i2 == Add32(r.i, Mul32(r.w, d.digit))
        wrapsI == MulWraps(r.w, d.digit) \/ AddWraps(r.i, Mul32(r.w, d.digit))
        t0 == Add32(r.k, -r.bias)
        t == IF t0 < tmin THEN tmin ELSE IF t0 > tmax THEN tmax ELSE t0
        w2 == Mul32(r.w, base - t)
        wrapsW == r.w < 0 \/ MulWraps(r.w, base - t)
        read == [r EXCEPT !.steps = r.steps + 1]
    IN  IF ~d.ok
        THEN [run |-> [read EXCEPT !.pc = "return"], decoded |-> punyError(encoded)]
        ELSE IF i2 < 0
        THEN [run |-> [read EXCEPT !.pc = "return", !.pos = r.pos + 1, !.i = i2,
                                   !.wrapped = wrapsI],
              decoded |-> punyError(encoded)]
        ELSE IF d.digit < t
        THEN [run |-> [read EXCEPT !.pc = "insert", !.pos = r.pos + 1, !.i = i2,
                                   !.wrapped = wrapsI],
              decoded |-> Decoded(<< >>)]
        ELSE [run |-> [read EXCEPT !.pos = r.pos + 1, !.i = i2, !.w = w2,
                                   !.k = Add32(r.k, base),
                                   !.wrapped = wrapsI \/ wrapsW],
              decoded |-> Decoded(<< >>)]

\* one round of the inner loop, from the test of pos to the test of w
punyDecodeDigitStep(encoded, r) ==
    IF r.pos = Len(encoded)
    THEN [run |-> [r EXCEPT !.pc = "return"], decoded |-> punyError(encoded)]
    ELSE
    LET d == punyDecodeDigit(encoded[r.pos + 1])
        i2 == Add32(r.i, Mul32(r.w, d.digit))
        wrapsI == MulWraps(r.w, d.digit) \/ AddWraps(r.i, Mul32(r.w, d.digit))
        t0 == Add32(r.k, -r.bias)
        t == IF t0 < tmin THEN tmin ELSE IF t0 > tmax THEN tmax ELSE t0
        w2 == Mul32(r.w, base - t)
        wrapsW == MulWraps(r.w, base - t)
        read == [r EXCEPT !.steps = r.steps + 1]
    IN  IF ~d.ok
        THEN [run |-> [read EXCEPT !.pc = "return"], decoded |-> punyError(encoded)]
        ELSE IF i2 < 0
        THEN [run |-> [read EXCEPT !.pc = "return", !.pos = r.pos + 1, !.i = i2,
                                   !.wrapped = wrapsI],
              decoded |-> punyError(encoded)]
        ELSE IF d.digit < t
        THEN [run |-> [read EXCEPT !.pc = "insert", !.pos = r.pos + 1, !.i = i2,
                                   !.wrapped = wrapsI],
              decoded |-> Decoded(<< >>)]
        ELSE IF w2 >= Quo(MaxInt32, base)
        THEN [run |-> [read EXCEPT !.pc = "return", !.pos = r.pos + 1, !.i = i2,
                                   !.w = w2, !.wrapped = wrapsI \/ wrapsW],
              decoded |-> punyError(encoded)]
        ELSE [run |-> [read EXCEPT !.pos = r.pos + 1, !.i = i2, !.w = w2,
                                   !.k = Add32(r.k, base),
                                   !.wrapped = wrapsI \/ wrapsW],
              decoded |-> Decoded(<< >>)]

\* the statements after the inner loop: the bias, n, i and the insertion
punyDecodeInsert(encoded, r) ==
    LET x == Len(r.output) + 1
        bias2 == punyAdapt(Add32(r.i, -r.oldI), x, r.oldI = 0)
        n2 == Add32(r.n, Quo(r.i, x))
        wrapsN == AddWraps(r.n, Quo(r.i, x))
        i2 == Rem(r.i, x)
    IN  IF n2 > MaxRune \/ Len(r.output) >= MaxOutput
        THEN [run |-> [r EXCEPT !.pc = "return", !.bias = bias2, !.n = n2,
                                !.i = i2, !.wrapped = wrapsN],
              decoded |-> punyError(encoded)]
        ELSE [run |-> [r EXCEPT !.pc = "loop", !.bias = bias2, !.n = n2,
                                !.i = Add32(i2, 1), !.at = i2,
                                !.rounds = r.rounds + 1, !.wrapped = wrapsN,
                                !.output = SubSeq(r.output, 1, i2) \o <<n2>>
                                               \o SubSeq(r.output, i2 + 1,
                                                         Len(r.output))],
              decoded |-> Decoded(<< >>)]

\* punyDecode(encoded) is called
StepCall ==
    /\ call.op = "New"
    /\ \E encoded \in ShortEncoded \cup LongEncoded :
           call' = [NoCall EXCEPT !.op = "punyDecode", !.value = encoded]
    /\ UNCHANGED <<Errors, pre, prev>>

StepStart ==
    /\ call.op = "punyDecode"
    /\ call.run.pc = "start"
    /\ call' = [call EXCEPT !.run = punyDecodeStart(call.value, call.run).run,
                            !.decoded = punyDecodeStart(call.value, call.run).decoded]
    /\ UNCHANGED <<Errors, pre, prev>>

StepLoopTest ==
    /\ call.run.pc = "loop"
    /\ call' = [call EXCEPT !.run = punyDecodeLoopTest(call.value, call.run).run,
                            !.decoded = punyDecodeLoopTest(call.value, call.run).decoded]
    /\ UNCHANGED <<Errors, pre, prev>>

StepDigit ==
    /\ call.run.pc = "digits"
    /\ call' = [call EXCEPT !.run = punyDecodeDigitStep(call.value, call.run).run,
                            !.decoded = punyDecodeDigitStep(call.value, call.run).decoded]
    /\ UNCHANGED <<Errors, pre, prev>>

StepInsert ==
    /\ call.run.pc = "insert"
    /\ call' = [call EXCEPT !.run = punyDecodeInsert(call.value, call.run).run,
                            !.decoded = punyDecodeInsert(call.value, call.run).decoded]
    /\ UNCHANGED <<Errors, pre, prev>>

\* the steps of the decoder
DecoderSteps == StepStart \/ StepLoopTest \/ StepDigit \/ StepInsert

NextPunySteps == StepCall \/ DecoderSteps

SpecPunySteps == Init /\ [][NextPunySteps]_vars

\* the decoder is not stopped from outside: a step it can take is taken
FairPunySteps == SpecPunySteps /\ WF_vars(DecoderSteps)

(***************************************************************************)
(* Validator.String: the rendering of an accumulator.                      *)
(***************************************************************************)
\* a < b for two Go strings: the bytes are compared, and UTF-8 keeps the
\* order of the code points
RECURSIVE StringLess(_, _)
StringLess(a, b) ==
    IF b = << >> THEN FALSE
    ELSE IF a = << >> THEN TRUE
    ELSE IF Ord(a[1]) # Ord(b[1]) THEN Ord(a[1]) < Ord(b[1])
    ELSE StringLess(Tail(a), Tail(b))

\* sort.Strings(keys)
RECURSIVE sortStrings(_)
sortStrings(keys) ==
    IF keys = << >> THEN << >>
    ELSE LET least == CHOOSE i \in 1..Len(keys) :
                          \A j \in 1..Len(keys) : ~StringLess(keys[j], keys[i])
         IN  <<keys[least]>>
                 \o sortStrings(SubSeq(keys, 1, least - 1)
                                    \o SubSeq(keys, least + 1, Len(keys)))

\* strings.Join(elems, sep)
RECURSIVE stringsJoin(_, _)
stringsJoin(elems, sep) ==
    IF elems = << >> THEN << >>
    ELSE IF Len(elems) = 1 THEN elems[1]
    ELSE elems[1] \o sep \o stringsJoin(Tail(elems), sep)

\* the loop over the sorted keys: one line is written per key
RECURSIVE WriteLines(_, _)
WriteLines(m, keys) ==
    IF keys = << >> THEN << >>
    ELSE (IF keys[1] # << >> THEN keys[1] \o <<":", " ">> ELSE << >>)
             \o stringsJoin(m[keys[1]], <<",", " ">>)
             \o <<".", Chr(10)>>
             \o WriteLines(m, Tail(keys))

\* Validator.String that leaves the keys in the order of the map
Validator_String_Unsorted(m, keys) ==
    IF ~Validator_HasErrors(m) THEN << >> ELSE WriteLines(m, keys)

\* v.String(): keys holds the keys in the order the range over the map
\* gives them, which Go leaves open
Validator_String(m, keys) ==
    IF ~Validator_HasErrors(m) THEN << >> ELSE WriteLines(m, sortStrings(keys))

\* the orders in which a range over the map can give its keys
KeyOrders(m) ==
    {keys \in [1..Cardinality(DOMAIN m) -> DOMAIN m] :
        \A i, j \in 1..Cardinality(DOMAIN m) : i # j => keys[i] # keys[j]}

\* the keys and the messages of the accumulators that are rendered
StringKeys == {<< >>, <<"k">>, <<"k", "2">>, <<"K">>}

StringValues == {<<"o", "h", " ", "n", "o">>, <<"m", "o", "r", "e">>}

CallString(v, keys) ==
    /\ call' = [NoCall EXCEPT !.op = "String", !.v = v,
                              !.str = Validator_String(Errors[v], keys)]
    /\ pre' = Errors
    /\ UNCHANGED <<Errors, prev>>

\* an accumulator is built up and taken down in any order and rendered
NextString ==
    \/ \E key \in StringKeys, value \in StringValues :
            CallAppend("v", key, value, << >>)
    \/ \E key \in DOMAIN Errors["v"] : CallPop("v", key)
    \/ \E keys \in KeyOrders(Errors["v"]) : CallString("v", keys)

SpecString == Init /\ [][NextString]_vars

(***************************************************************************)
(* Merge of three accumulators, grouped in the two ways.                   *)
(***************************************************************************)
\* the longest message list of a merged accumulator
MaxMergeLen == 1

\* the keys and the messages of the merged accumulators
MergeKeys == {<<"x">>, <<"y">>}

MergeMsgs == {<<"a">>, <<"b">>}

\* the accumulators Append can build over these keys and messages: no key
\* has an empty list
MergeMaps ==
    UNION {[keys -> UNION {[1..n -> MergeMsgs] : n \in 1..MaxMergeLen}] :
               keys \in SUBSET MergeKeys}

\* three accumulators a, b and c are built
InitMerge ==
    /\ \E a \in MergeMaps, b \in MergeMaps, c \in MergeMaps :
           Errors = [v \in Validators |->
                        IF v = "v" THEN a ELSE IF v = "s1" THEN b ELSE c]
    /\ pre = Errors
    /\ prev = NoCall
    /\ call = [NoCall EXCEPT !.op = "input"]

\* a.Merge(b); a.Merge(c) on one copy of the three, and b.Merge(c);
\* a.Merge(b) on another
CallMergeBothWays ==
    /\ call.op = "input"
    /\ call' = [call EXCEPT
           !.op = "Merge",
           !.left = Validator_Merge(Validator_Merge(Errors["v"], Errors["s1"]),
                                    Errors["s2"]),
           !.right = Validator_Merge(Errors["v"],
                                     Validator_Merge(Errors["s1"], Errors["s2"]))]
    /\ UNCHANGED <<Errors, pre, prev>>

SpecMerge == InitMerge /\ [][CallMergeBothWays]_vars

(***************************************************************************)
(* TemplateError and TemplateHasErrors.                                    *)
(***************************************************************************)
\* template.HTMLEscapeString(str); the NUL it also replaces is not among
\* the characters of a message
HTMLEscapeString(str) ==
    LET escape(c) ==
            IF c = "&" THEN <<"&", "a", "m", "p", ";">>
            ELSE IF c = "'" THEN <<"&", "#", "3", "9", ";">>
            ELSE IF c = "<" THEN <<"&", "l", "t", ";">>
            ELSE IF c = ">" THEN <<"&", "g", "t", ";">>
            ELSE IF c = "\"" THEN <<"&", "#", "3", "4", ";">>
            ELSE <<c>>
        Escaped[i \in 0..Len(str)] ==
            IF i = 0 THEN << >> ELSE Escaped[i - 1] \o escape(str[i])
    IN  Escaped[Len(str)]

\* the format of the markup
ErrSpan == <<"<", "s", "p", "a", "n", " ", "c", "l", "a", "s", "s", "=", "\"", "e", "r", "r", "\"", ">", "E", "r", "r", "o", "r", ":", " ", "%", "s", "<", "/", "s", "p", "a", "n", ">">>

\* TemplateError that reads the messages and leaves them in the accumulator
TemplateError_Keep(isNil, m, k) ==
    IF isNil \/ ~Validator_HasErrors(m) \/ Validator_PopResult(m, k).isNil
    THEN [html |-> << >>, Errors |-> m]
    ELSE [html |-> Sprintf(ErrSpan,
                       <<StrArg(HTMLEscapeString(
                             stringsJoin(Validator_PopResult(m, k).elems, <<",", " ">>)))>>),
          Errors |-> m]

\* TemplateError(k, v): the markup it returns and the field Errors of v
\* after it; isNil says that v is nil (m is not looked at then)
TemplateError(isNil, m, k) ==
    IF isNil \/ ~Validator_HasErrors(m) THEN [html |-> << >>, Errors |-> m]
    ELSE LET errs == Validator_PopResult(m, k)
         IN  IF errs.isNil THEN [html |-> << >>, Errors |-> Validator_Pop(m, k)]
             ELSE [html |-> Sprintf(ErrSpan,
                                <<StrArg(HTMLEscapeString(
                                      stringsJoin(errs.elems, <<",", " ">>)))>>),
                   Errors |-> Validator_Pop(m, k)]

\* TemplateHasErrors(v)
TemplateHasErrors(isNil, m) == IF isNil THEN FALSE ELSE Validator_HasErrors(m)

\* the keys and the messages of the form that is displayed
TemplateKeys == {<< >>, <<"x", "x", "x">>, <<"h", "i", "d", "d", "e", "n">>}

TemplateMsgs == {<<"o", "h", " ", "n", "o", "e", "s">>, <<"a", "<", "b", " ", "&", " ", "c">>}

\* {{validate k .Validate}}: start is the accumulator at the first of a
\* run of these calls and shown the keys the run has displayed
CallTemplateError(isNil, k) ==
    /\ Errors' = [Errors EXCEPT
                     !["v"] = TemplateError(isNil, Errors["v"], k).Errors]
    /\ call' = [NoCall EXCEPT
           !.op = "TemplateError", !.isNil = isNil, !.key = k,
           !.str = TemplateError(isNil, Errors["v"], k).html,
           !.start = IF call.op \in {"TemplateError", "TemplateHasErrors"}
                     THEN call.start ELSE Errors["v"],
           !.shown = IF call.op \in {"TemplateError", "TemplateHasErrors"}
                     THEN call.shown \cup (IF isNil THEN {} ELSE {k})
                     ELSE (IF isNil THEN {} ELSE {k})]
    /\ pre' = Errors
    /\ UNCHANGED prev

\* {{if has_errors .Validate}} after the fields were displayed
CallTemplateHasErrors(isNil) ==
    /\ call.op = "TemplateError"
    /\ call' = [call EXCEPT !.op = "TemplateHasErrors", !.isNil = isNil,
                            !.has = TemplateHasErrors(isNil, Errors["v"])]
    /\ pre' = Errors
    /\ UNCHANGED <<Errors, prev>>

\* a form is validated and then displayed
NextTemplate ==
    \/ \E key \in TemplateKeys, value \in TemplateMsgs :
            CallAppend("v", key, value, << >>)
    \/ \E isNil \in BOOLEAN, k \in TemplateKeys : CallTemplateError(isNil, k)
    \/ \E isNil \in BOOLEAN : CallTemplateHasErrors(isNil)

SpecTemplate == Init /\ [][NextTemplate]_vars

(***************************************************************************)
(* Properties of the accumulator.                                          *)
(***************************************************************************)
\* every accumulator but the receiver of the last call is as it was
OthersUnchanged == \A o \in Validators \ {call.v} : Errors[o] = pre[o]

\* the keys of m other than key keep their lists
RestUnchanged(key) ==
    /\ DOMAIN Errors[call.v] \ {key} = DOMAIN pre[call.v] \ {key}
    /\ \A k \in DOMAIN pre[call.v] \ {key} : Errors[call.v][k] = pre[call.v][k]

\* the text holds no formatting directive
NoPercent(text) == \A i \in 1..Len(text) : text[i] # "%"

\* C1 as stated: Append(key, msg) leaves the list at key equal to its
\* previous list with msg itself as the last element, and leaves every
\* other key unchanged.
C1_AppendsMsgItself ==
    (call.op = "Append" /\ call.format = << >>) =>
        /\ call.key \in DOMAIN Errors[call.v]
        /\ Errors[call.v][call.key] = Lookup(pre[call.v], call.key) \o <<call.value>>
        /\ RestUnchanged(call.key)

\* C1 amended: Append(key, msg, args...) never overwrites: the list at key
\* becomes its previous list (empty if the key was absent) followed by
\* one new element, the text formatted from msg and args (msg itself when
\* msg holds no % directive and there are no args); every other key and
\* every other accumulator is unchanged, and nothing is deduplicated.
C1_AppendNeverOverwrites ==
    call.op = "Append" =>
        /\ call.key \in DOMAIN Errors[call.v]
        /\ Len(Errors[call.v][call.key]) = Len(Lookup(pre[call.v], call.key)) + 1
        /\ SubSeq(Errors[call.v][call.key], 1, Len(Lookup(pre[call.v], call.key)))
               = Lookup(pre[call.v], call.key)
        /\ Errors[call.v][call.key][Len(Errors[call.v][call.key])]
               = Sprintf(call.value, call.format)
        /\ (NoPercent(call.value) /\ call.format = << >>) =>
               Errors[call.v][call.key][Len(Errors[call.v][call.key])] = call.value
        /\ RestUnchanged(call.key)
        /\ OthersUnchanged

\* C1 witness: the same message is appended a second time to a key, next
\* to another key, and the list holds it twice.
C1_Witness ==
    /\ call.op = "Append"
    /\ call.key \in DOMAIN pre[call.v]
    /\ DOMAIN pre[call.v] \ {call.key} # {}
    /\ Len(Errors[call.v][call.key]) = 2
    /\ Errors[call.v][call.key][1] = Errors[call.v][call.key][2]

\* C2: Pop(key) on a key that has messages returns the whole list of the
\* key in the order held, removes the key, and leaves every other key and
\* every other accumulator unchanged.
C2_PopReturnsAndRemoves ==
    (call.op = "Pop" /\ call.key \in DOMAIN pre[call.v]
                      /\ Len(pre[call.v][call.key]) > 0) =>
        /\ call.errs = Slice(pre[call.v][call.key])
        /\ call.key \notin DOMAIN Errors[call.v]
        /\ RestUnchanged(call.key)
        /\ OthersUnchanged

\* C2 witness: a key holding two different messages is popped while
\* another key is present.
C2_Witness ==
    /\ call.op = "Pop"
    /\ call.key \in DOMAIN pre[call.v]
    /\ Len(pre[call.v][call.key]) = 2
    /\ pre[call.v][call.key][1] # pre[call.v][call.key][2]
    /\ DOMAIN Errors[call.v] # {}

\* C3: Pop(key) on an absent key returns nil and leaves every accumulator
\* as it was; a Pop of any key right after a Pop of that key returns nil
\* and changes nothing.
C3_PopAbsentIsNoOp ==
    /\ (call.op = "Pop" /\ call.key \notin DOMAIN pre[call.v]) =>
           (call.errs = NilSlice /\ Errors = pre)
    /\ \A v \in Validators : \A key \in PopKeys(v) :
           LET once == Validator_Pop(Errors[v], key)
           IN  /\ Validator_PopResult(once, key) = NilSlice
               /\ Validator_Pop(once, key) = once

\* C3 witness: an absent key is popped from an accumulator that has keys.
C3_Witness ==
    /\ call.op = "Pop"
    /\ call.key \notin DOMAIN pre[call.v]
    /\ DOMAIN pre[call.v] # {}
    /\ call.errs = NilSlice

\* the key Sub puts in front of the sub-accumulator's keys, by concatenation
ParentPrefix(key, subKey) ==
    IF subKey = << >> THEN key ELSE key \o <<"[">> \o subKey \o <<"]">>

\* the composed key of a sub-accumulator's key k
ComposedKey(key, subKey, k) == ParentPrefix(key, subKey) \o <<".">> \o k

\* the last call is a Sub with an accumulator-shaped error
IsSubOfValidator == call.op = "Sub" /\ call.err.kind \in {"ptr", "val"}

\* C4: Sub(parentKey, subKey, err) with an accumulator-shaped err: for
\* every key k of the sub-accumulator the parent's list at the composed
\* key becomes its previous list followed by the sub-accumulator's list
\* for k; every other parent key is unchanged (also when Sub is called a
\* second time, which appends the messages again).
C4_SubAppendsUnderComposedKeys ==
    IsSubOfValidator =>
        LET sub == pre[call.err.of]
            composed == {ComposedKey(call.key, call.subKey, k) : k \in DOMAIN sub}
        IN  /\ \A k \in DOMAIN sub :
                   LET mk == ComposedKey(call.key, call.subKey, k)
                   IN  /\ mk \in DOMAIN Errors[call.v]
                       /\ Errors[call.v][mk] = Lookup(pre[call.v], mk) \o sub[k]
            /\ DOMAIN Errors[call.v] = DOMAIN pre[call.v] \cup composed
            /\ \A j \in DOMAIN pre[call.v] \ composed :
                   Errors[call.v][j] = pre[call.v][j]
            /\ OthersUnchanged

\* C4 witness: the same Sub is called a second time, with a sub key, on a
\* parent that holds the composed key and a key of its own: the composed
\* key holds the sub-accumulator's message twice.
C4_Witness ==
    /\ IsSubOfValidator
    /\ \E k \in DOMAIN pre[call.err.of] :
           LET mk == ComposedKey(call.key, call.subKey, k)
           IN  /\ mk \in DOMAIN pre[call.v]
               /\ pre[call.v][mk] = pre[call.err.of][k]
               /\ Errors[call.v][mk] = pre[call.err.of][k] \o pre[call.err.of][k]
    /\ call.key \in DOMAIN Errors[call.v]

\* C5: Sub(parentKey, subKey, err) with an err that is not an accumulator
\* adds exactly one message, the error's own text, at the end of the list
\* for parentKey (with [subKey] when subKey is not empty), and changes no
\* other key.
C5_SubPlainErrorAddsItsText ==
    (call.op = "Sub" /\ call.err.kind = "plain") =>
        LET key == ParentPrefix(call.key, call.subKey)
        IN  /\ key \in DOMAIN Errors[call.v]
            /\ Errors[call.v][key] = Lookup(pre[call.v], key) \o <<call.err.text>>
            /\ RestUnchanged(key)
            /\ OthersUnchanged

\* C6: Sub with a nil error, or with an accumulator (by value or by
\* pointer) that has no keys, leaves every accumulator unchanged.
C6_SubOfNothingIsNoOp ==
    (call.op = "Sub" /\ (\/ call.err = NilError
                         \/ (call.err.kind \in {"ptr", "val"}
                               /\ DOMAIN pre[call.err.of] = {}))) =>
        Errors = pre

\* C6 witness: an accumulator without keys is passed by value, with a sub
\* key, to a parent that has keys.
C6_Witness ==
    /\ call.op = "Sub"
    /\ call.err.kind = "val"
    /\ DOMAIN pre[call.err.of] = {}
    /\ call.subKey # << >>
    /\ DOMAIN pre[call.v] # {}

\* C8: Merge(other): for every key of other the list at that key becomes
\* the previous list followed by other's list, keys absent before are
\* created, and keys that other lacks are unchanged.
C8_MergeAppendsPerKey ==
    call.op = "Merge" =>
        LET other == pre[call.other]
        IN  /\ \A k \in DOMAIN other :
                   /\ k \in DOMAIN Errors[call.v]
                   /\ Errors[call.v][k] = Lookup(pre[call.v], k) \o other[k]
            /\ DOMAIN Errors[call.v] = DOMAIN pre[call.v] \cup DOMAIN other
            /\ \A j \in DOMAIN pre[call.v] \ DOMAIN other :
                   Errors[call.v][j] = pre[call.v][j]
            /\ OthersUnchanged

\* C8 witness: the two accumulators share a key with different messages
\* and this accumulator has a key that other lacks; its own message comes
\* first at the shared key.
C8_Witness ==
    /\ call.op = "Merge"
    /\ \E k \in DOMAIN pre[call.v] \cap DOMAIN pre[call.other] :
           /\ pre[call.v][k] # pre[call.other][k]
           /\ Errors[call.v][k][1] = pre[call.v][k][1]
    /\ DOMAIN pre[call.v] \ DOMAIN pre[call.other] # {}

\* C9: HasErrors() is true exactly when the mapping has at least one key,
\* and ErrorOrNil() returns nil exactly when HasErrors() is false and the
\* accumulator itself otherwise, after any sequence of calls.
C9_HasErrorsIffAnyKey ==
    /\ call.op = "HasErrors" =>
           (call.has <=> (\E k \in DOMAIN Errors[call.v] : TRUE))
    /\ call.op = "ErrorOrNil" =>
           /\ (call.ret = NilError) <=> (DOMAIN Errors[call.v] = {})
           /\ (call.ret = NilError) <=> ~Validator_HasErrors(Errors[call.v])
           /\ call.ret # NilError =>
                  (call.ret.kind = "ptr" /\ call.ret.of = call.v)
    /\ call.op \in {"HasErrors", "ErrorOrNil"} => Errors = pre

\* C9 witness: ErrorOrNil returns the accumulator itself when it holds
\* exactly one key.
C9_Witness ==
    /\ call.op = "ErrorOrNil"
    /\ call.ret # NilError
    /\ Cardinality(DOMAIN Errors[call.v]) = 1

\* s is the end of t
IsSuffix(s, t) ==
    /\ Len(s) <= Len(t)
    /\ SubSeq(t, Len(t) - Len(s) + 1, Len(t)) = s

\* the last two calls are mid.Sub(p2, s2, child) and then top.Sub(p1, s1, mid)
IsSubOfSub ==
    /\ prev.op = "Sub" /\ prev.v = "s1" /\ prev.err.of = "s2"
    /\ call.op = "Sub" /\ call.v = "v" /\ call.err.of = "s1"

\* C7: Sub composes to any depth by textual prefixing, once per call: for
\* every key k of the child, after mid.Sub(p2, s2, child) and then
\* top.Sub(p1, s1, mid), top holds the child's messages for k at the end
\* of the list at the key p1 (with [s1]) "." p2 (with [s2]) "." k.
C7_SubOfSubPrefixesTwice ==
    IsSubOfSub =>
        \A k \in DOMAIN Errors["s2"] :
            LET mk == ParentPrefix(prev.key, prev.subKey) \o <<".">> \o k
                key == ParentPrefix(call.key, call.subKey) \o <<".">> \o mk
            IN  /\ key \in DOMAIN Errors["v"]
                /\ IsSuffix(Errors["s2"][k], Errors["v"][key])

\* C7 witness: a child with a message is composed into mid under an
\* indexed key and mid into top under a plain key, as in
\* "lsub1.lsub2[holiday].err".
C7_Witness ==
    /\ IsSubOfSub
    /\ prev.subKey # << >>
    /\ call.subKey = << >>
    /\ <<"x">> \in DOMAIN Errors["s2"]
    /\ <<"x", ".", "x", "[", "s", "]", ".", "x">> \in DOMAIN Errors["v"]

(***************************************************************************)
(* Properties of the domain and hostname validators.                       *)
(***************************************************************************)
\* the last call is a Domain or a Hostname of a value that is not empty
IsDomainCall == call.op \in {"Domain", "Hostname"} /\ call.value # << >>

\* the least number of labels the last call asks for
MinLabelsOfCall == IF call.op = "Domain" THEN 2 ELSE 1

\* the description the message of the last call starts with
DescriptionOfCall ==
    IF call.message # << >> THEN call.message[1]
    ELSE IF call.op = "Domain" THEN <<"m", "u", "s", "t", " ", "b", "e", " ", "a", " ", "v", "a", "l", "i", "d", " ", "d", "o", "m", "a", "i", "n">>
    ELSE <<"m", "u", "s", "t", " ", "b", "e", " ", "a", " ", "v", "a", "l", "i", "d", " ", "h", "o", "s", "t", "n", "a", "m", "e">>

\* the number of dots of a string
NumDots(str) == Cardinality({i \in 1..Len(str) : str[i] = "."})

\* a value without its trailing dot, if it has one
WithoutTrailingDot(value) ==
    IF value # << >> /\ value[Len(value)] = "."
    THEN SubSeq(value, 1, Len(value) - 1) ELSE value

\* the ASCII letters, the digits and the hyphen
LabelChars ==
    {Ascii[i] : i \in (17..26) \cup (34..59) \cup (66..91)} \cup {"-"}

\* the last call failed with reason: it returned nil and put one message,
\* the description, a colon and the reason, at the end of the list of its key
RejectedWith(reason) ==
    /\ call.labels = NilSlice
    /\ call.key \in DOMAIN Errors[call.v]
    /\ Errors[call.v][call.key]
           = Lookup(pre[call.v], call.key)
                 \o <<DescriptionOfCall \o <<":", " ">> \o reason>>
    /\ RestUnchanged(call.key)
    /\ OthersUnchanged

\* the reason of the label count for the last call
NeedLabelsReason ==
    IF call.op = "Domain" THEN <<"n", "e", "e", "d", " ", "a", "t", " ", "l", "e", "a", "s", "t", " ", "2", " ", "l", "a", "b", "e", "l", "s">>
    ELSE <<"n", "e", "e", "d", " ", "a", "t", " ", "l", "e", "a", "s", "t", " ", "1", " ", "l", "a", "b", "e", "l", "s">>

\* C10 as stated: a value that splits on "." into fewer labels than the
\* minimum (2 for Domain, 1 for Hostname) fails with the reason "need at
\* least N labels", and a single-label value is accepted by Hostname.
C10_FewerLabelsNeedLabels ==
    /\ (IsDomainCall /\ NumDots(call.value) + 1 < MinLabelsOfCall) =>
           RejectedWith(NeedLabelsReason)
    /\ (IsDomainCall /\ call.op = "Hostname" /\ NumDots(call.value) = 0
          /\ Len(call.value) <= 63
          /\ \A i \in 1..Len(call.value) : call.value[i] \in LabelChars) =>
           (Errors = pre /\ call.labels = Slice(<<call.value>>))

\* C10 amended: for a value of at least 3 bytes that does not start with
\* a dot, the labels being counted after one trailing dot is dropped:
\* with fewer labels than the minimum (2 for Domain, 1 for Hostname) the
\* call fails with the reason "need at least N labels", and with at least
\* the minimum it does not fail with that reason; so a single-label value
\* is rejected by Domain, and it is accepted by Hostname when it is at
\* most 63 bytes of ASCII letters, digits and hyphens without the xn--
\* prefix; Hostname never fails for the number of labels.
C10_LabelCountAfterEarlyRejection ==
    (IsDomainCall /\ ByteLen(call.value) >= 3 /\ call.value[1] # ".") =>
        LET value == WithoutTrailingDot(call.value)
        IN  /\ NumDots(value) + 1 < MinLabelsOfCall =>
                   RejectedWith(NeedLabelsReason)
            /\ NumDots(value) + 1 >= MinLabelsOfCall =>
                   ~RejectedWith(NeedLabelsReason)
            /\ (call.op = "Domain" /\ NumDots(value) = 0) =>
                   RejectedWith(<<"n", "e", "e", "d", " ", "a", "t", " ", "l", "e", "a", "s", "t", " ", "2", " ", "l", "a", "b", "e", "l", "s">>)
            /\ (call.op = "Hostname" /\ NumDots(value) = 0
                  /\ Len(value) <= 63 /\ ~HasPrefix(value, <<"x", "n", "-", "-">>)
                  /\ \A i \in 1..Len(value) : value[i] \in LabelChars) =>
                   (Errors = pre /\ call.labels = Slice(<<value>>))
            /\ call.op = "Hostname" => ~RejectedWith(NeedLabelsReason)

\* C10 witness: Domain rejects the single label one-label with the
\* message "must be a valid domain: need at least 2 labels", and Hostname
\* called with the same arguments would record nothing and return the
\* label.
C10_Witness ==
    /\ call.op = "Domain"
    /\ call.value = <<"o", "n", "e", "-", "l", "a", "b", "e", "l">>
    /\ call.message = << >>
    /\ call.labels = NilSlice
    /\ Errors[call.v][call.key]
           = <<<<"m", "u", "s", "t", " ", "b", "e", " ", "a", " ", "v", "a", "l", "i", "d", " ", "d", "o", "m", "a", "i", "n", ":", " ", "n", "e", "e", "d", " ", "a", "t", " ", "l", "e", "a", "s", "t", " ", "2", " ", "l", "a", "b", "e", "l", "s">>>>
    /\ Validator_Hostname(pre[call.v], call.key, call.value, call.message)
           = pre[call.v]
    /\ Validator_HostnameResult(call.value) = Slice(<<call.value>>)

(***************************************************************************)
(* Properties of validDomain.                                              *)
(***************************************************************************)
\* the labels of a value: the parts between the dots of the value without
\* its trailing dot, found from the positions of the dots
LabelsOf(value) ==
    LET str == WithoutTrailingDot(value)
        dots == {i \in 1..Len(str) : str[i] = "."}
        ends == dots \cup {Len(str) + 1}
        FirstOf(e) == IF \E d \in dots : d < e
                      THEN (CHOOSE d \in dots : d < e /\ \A d2 \in dots : d2 < e => d2 <= d) + 1
                      ELSE 1
    IN  {SubSeq(str, FirstOf(e), e - 1) : e \in ends}

\* the last call is validDomain as Domain calls it
IsValidDomainOfDomain == call.op = "validDomain" /\ call.minLabels = 2

\* the last call returned labels and no error
Succeeded == call.err = NilError /\ ~call.labels.isNil

\* the labels returned are the value, without its trailing dot, cut at
\* every dot
ReturnsSplitValue ==
    /\ Join(call.labels.elems) = WithoutTrailingDot(call.value)
    /\ \A i \in 1..Len(call.labels.elems) :
           \A j \in 1..Len(call.labels.elems[i]) : call.labels.elems[i][j] # "."

\* a value of ASCII letters, digits, hyphens and dots with at least two
\* labels, none empty, each of at most 63 bytes, of at most 255 bytes in all
IsPlainDomain(value) ==
    /\ \A i \in 1..Len(value) : value[i] \in LabelChars \cup {"."}
    /\ NumDots(WithoutTrailingDot(value)) >= 1
    /\ \A l \in LabelsOf(value) : 1 <= Len(l) /\ Len(l) <= 63
    /\ Len(WithoutTrailingDot(value)) <= 255

\* C11 as stated: for a domain string of only ASCII letters, digits and
\* hyphens with at least 2 labels, each of at most 63 bytes and at most
\* 255 bytes in all, Domain records no error and returns the labels split
\* on the dots, a trailing dot dropped.
C11_PlainDomainSucceeds ==
    (IsValidDomainOfDomain /\ IsPlainDomain(call.value)) =>
        (Succeeded /\ ReturnsSplitValue)

\* C11 amended: for a domain string of only ASCII letters, digits and
\* hyphens with at least 2 labels, none empty and none starting with
\* xn--, each of at most 63 bytes and at most 255 bytes in all, Domain
\* records no error and returns the labels split on the dots, a trailing
\* dot dropped.
C11_PlainDomainWithoutPunycodeSucceeds ==
    (IsValidDomainOfDomain /\ IsPlainDomain(call.value)
       /\ \A l \in LabelsOf(call.value) : ~HasPrefix(l, <<"x", "n", "-", "-">>)) =>
        /\ Succeeded
        /\ ReturnsSplitValue
        /\ Validator_Domain(New, <<"x">>, call.value, << >>) = New
        /\ Validator_DomainResult(call.value) = call.labels

\* C11 witness: a value of three labels with a digit, a hyphen and a
\* trailing dot is accepted and three labels are returned.
C11_Witness ==
    /\ IsValidDomainOfDomain
    /\ IsPlainDomain(call.value)
    /\ call.value[Len(call.value)] = "."
    /\ <<"b", "-", "1">> \in LabelsOf(call.value)
    /\ Succeeded
    /\ Len(call.labels.elems) = 3

\* C12: a value that yields an empty label after it is split on the dots
\* (two dots in a row, or a dot left at the end after the one trailing
\* dot is dropped) makes Domain and Hostname record an error.
C12_EmptyLabelsFail ==
    (IsDomainCall /\ << >> \in LabelsOf(call.value)) =>
        (Errors # pre /\ call.labels = NilSlice)

\* the labels of a value in their order
LabelSeq(value) == Split(WithoutTrailingDot(value), ".")

\* the value gets past the early rejection and the count of the labels
ReachesLabels(value, minLabels) ==
    /\ ByteLen(value) >= 3
    /\ value[1] # "."
    /\ Len(LabelSeq(value)) >= minLabels

\* a label of at most 63 bytes of ASCII letters, digits and hyphens that
\* is not punycode
IsPlainLabel(l) ==
    /\ ByteLen(l) <= 63
    /\ ~HasPrefix(l, <<"x", "n", "-", "-">>)
    /\ \A j \in 1..Len(l) : l[j] \in LabelChars

\* the last call failed and this is the reason
FailedWith(reason) == call.err = PlainError(reason) /\ call.labels = NilSlice

C14_AcceptedAtMost255Bytes ==
    (call.op = "validDomain" /\ Succeeded) =>
        ByteLen(WithoutTrailingDot(call.value)) <= 255

\* the sum of the bytes of the labels of a value, the dots not counted
LabelBytes(value) ==
    ByteLen(WithoutTrailingDot(value)) - NumDots(WithoutTrailingDot(value))

LettersDigitsHyphen ==
    LabelChars
        \cup {ToString(n) : n \in ({170, 181, 186} \cup (192..255)) \ {215, 247}}

C17_OneMessageOrNone ==
    IsDomainCall =>
        LET r == validDomain(call.value, MinLabelsOfCall)
        IN  IF r.err = NilError
            THEN Errors = pre /\ ~call.labels.isNil
            ELSE RejectedWith(r.err.text)

\* the text starts with the prefix
StartsWith(text, prefix) ==
    Len(text) >= Len(prefix) /\ SubSeq(text, 1, Len(prefix)) = prefix

\* C18: when a label starting with xn-- cannot be decoded, the reason is
\* "not valid punycode" followed by the text of that label, quoted: the
\* label as given or its part after xn--, not the empty string.
C18_PunycodeReasonCarriesLabel ==
    (call.op = "validDomain" /\ call.err # NilError
       /\ StartsWith(call.err.text, <<"n", "o", "t", " ", "v", "a", "l", "i", "d", " ", "p", "u", "n", "y", "c", "o", "d", "e">>)) =>
        \E l \in LabelsOf(call.value) :
            /\ HasPrefix(l, <<"x", "n", "-", "-">>)
            /\ ~punyDecode(SubSeq(l, 5, Len(l))).ok
            /\ \/ call.err.text = <<"n", "o", "t", " ", "v", "a", "l", "i", "d", " ", "p", "u", "n", "y", "c", "o", "d", "e", ":", " ">> \o Quote(l)
               \/ call.err.text
                      = <<"n", "o", "t", " ", "v", "a", "l", "i", "d", " ", "p", "u", "n", "y", "c", "o", "d", "e", ":", " ">> \o Quote(SubSeq(l, 5, Len(l)))


(***************************************************************************)
(* The decoder of RFC 3492 section 6.2, with the bias adaptation of        *)
(* section 6.1 and the parameters of section 5, for integers of 31 bits.   *)
(* It works on code points and is written from the text of the RFC.        *)
(***************************************************************************)
\* the digit-value of a code point: a-z and A-Z are 0..25, 0-9 are 26..35
RfcDigit(c) ==
    LET o == Ord(c)
    IN  IF 97 <= o /\ o <= 122 THEN o - 97
        ELSE IF 65 <= o /\ o <= 90 THEN o - 65
        ELSE IF 48 <= o /\ o <= 57 THEN o - 22
        ELSE -1

RECURSIVE RfcAdaptLoop(_, _)
RfcAdaptLoop(delta, k) ==
    IF delta > 455
    THEN RfcAdaptLoop(delta \div 35, k + 36)
    ELSE k + ((36 * delta) \div (delta + 38))

RfcAdapt(delta, numpoints, firsttime) ==
    LET d == IF firsttime THEN delta \div 700 ELSE delta \div 2
    IN  RfcAdaptLoop(d + (d \div numpoints), 0)

RfcFail == [ok |-> FALSE, out |-> << >>, i |-> 0, pos |-> 0]

\* one generalized variable-length integer, added to i
RECURSIVE RfcInteger(_, _, _, _, _, _)
RfcInteger(input, pos, i, w, k, bias) ==
    IF pos > Len(input) THEN RfcFail
    ELSE
    LET digit == RfcDigit(input[pos])
        t == IF k <= bias THEN 1 ELSE IF k >= bias + 26 THEN 26 ELSE k - bias
    IN  IF digit < 0 THEN RfcFail
        ELSE IF digit > (2147483647 - i) \div w THEN RfcFail
        ELSE IF digit < t
        THEN [ok |-> TRUE, out |-> << >>, i |-> i + digit * w, pos |-> pos + 1]
        ELSE IF w > 2147483647 \div (36 - t) THEN RfcFail
        ELSE RfcInteger(input, pos + 1, i + digit * w, w * (36 - t), k + 36, bias)

\* the main loop: one code point inserted per integer
RECURSIVE RfcMain(_, _, _, _, _, _)
RfcMain(input, pos, n, i, bias, out) ==
    IF pos > Len(input) THEN [ok |-> TRUE, out |-> out, i |-> i, pos |-> pos]
    ELSE
    LET r == RfcInteger(input, pos, i, 1, 36, bias)
        len1 == Len(out) + 1
    IN  IF ~r.ok THEN RfcFail
        ELSE IF r.i \div len1 > 2147483647 - n THEN RfcFail
        ELSE
        LET n2 == n + (r.i \div len1)
            at == r.i % len1
        IN  RfcMain(input, r.pos, n2, at + 1,
                    RfcAdapt(r.i - i, len1, i = 0),
                    SubSeq(out, 1, at) \o <<n2>> \o SubSeq(out, at + 1, Len(out)))

\* the code points before the last delimiter are copied, and the delimiter
\* is consumed when at least one code point was
RfcDecode(input) ==
    LET delims == {j \in 1..Len(input) : input[j] = "-"}
        d == IF delims = {} THEN 0 ELSE CHOOSE j \in delims : \A m \in delims : m <= j
    IN  IF \E j \in 1..(d - 1) : Ord(input[j]) >= 128 THEN RfcFail
        ELSE IF d > 1
        THEN RfcMain(input, d + 1, 128, 0, 72, [j \in 1..(d - 1) |-> Ord(input[j])])
        ELSE RfcMain(input, 1, 128, 0, 72, << >>)

\* a code point Go can hold in a string: up to U+10FFFF and no surrogate
IsScalarValue(n) == 0 <= n /\ n <= 1114111 /\ ~(55296 <= n /\ n <= 57343)

\* C19: punyDecode agrees with the decoder of RFC 3492 on every encoded
\* text of the bounded set: where the RFC decoder fails punyDecode returns
\* an error, and where the RFC decoder gives at most 1024 code points, all
\* of them code points of Unicode, punyDecode returns the string of the
\* same code points with no error.
C19_AgreesWithRfc3492 ==
    call.op = "punyDecode" =>
        LET ref == RfcDecode(call.value)
        IN  /\ ~ref.ok => ~call.decoded.ok
            /\ (/\ ref.ok
                /\ Len(ref.out) <= 1024
                /\ \A j \in 1..Len(ref.out) : IsScalarValue(ref.out[j]))
                   => /\ call.decoded.ok
                      /\ call.decoded.str = [j \in 1..Len(ref.out) |-> Chr(ref.out[j])]

\* an encoded text with a letter that is not ASCII before the delimiter is
\* decoded with no error, where the RFC decoder fails
C19_Witness ==
    /\ call.op = "punyDecode"
    /\ call.value = <<"252", "-">>
    /\ call.decoded.ok
    /\ call.decoded.str = <<"252">>
    /\ ~RfcDecode(call.value).ok


\* C20: punyDecode never returns part of a decoding: whenever it returns
\* an error the string it returns is empty, and the error holds the encoded
\* text it was given.
C20_ErrorReturnsNoOutput ==
    (call.op = "punyDecode" /\ ~call.decoded.ok) =>
        /\ call.decoded.str = << >>
        /\ call.decoded.label = call.value

\* an error after code points were decoded: the beginning of the encoded
\* text decodes to a string that is not empty, the whole text does not
C20_Witness ==
    /\ call.op = "punyDecode"
    /\ ~call.decoded.ok
    /\ call.decoded.str = << >>
    /\ call.decoded.label = call.value
    /\ \E n \in 1..(Len(call.value) - 1) :
           /\ punyDecode(SubSeq(call.value, 1, n)).ok
           /\ punyDecode(SubSeq(call.value, 1, n)).str # << >>

\* C21: the early rejection, for Domain (minLabels 2) and for Hostname
\* (minLabels 1): a value of less than 3 bytes that is not empty, and a
\* value that starts with a dot, fails with the reason "too short" and
\* nothing else is looked at.
C21_EarlyRejectionTooShort ==
    (call.op = "validDomain"
       /\ (ByteLen(call.value) < 3 \/ call.value[1] = ".")) =>
        FailedWith(<<"t", "o", "o", " ", "s", "h", "o", "r", "t">>)

\* C21 witness: a value of more than 3 bytes that starts with a dot and
\* has a label of more than 63 bytes is refused as too short.
C21_Witness ==
    /\ call.op = "validDomain"
    /\ call.value[1] = "."
    /\ \E i \in 1..Len(LabelSeq(call.value)) : ByteLen(LabelSeq(call.value)[i]) > 63
    /\ FailedWith(<<"t", "o", "o", " ", "s", "h", "o", "r", "t">>)

(***************************************************************************)
(* Properties of Validator.String.                                         *)
(***************************************************************************)
\* a comes before b in the lexicographic order: they agree on n characters
\* and then a ends or has the smaller character
LexBefore(a, b) ==
    \E n \in 0..Len(a) :
        /\ n <= Len(b)
        /\ SubSeq(a, 1, n) = SubSeq(b, 1, n)
        /\ \/ n = Len(a) /\ n < Len(b)
           \/ n < Len(a) /\ n < Len(b) /\ Ord(a[n + 1]) < Ord(b[n + 1])

\* the messages with a comma and a space between them
RECURSIVE CommaSeparated(_)
CommaSeparated(msgs) ==
    IF Len(msgs) <= 1 THEN (IF msgs = << >> THEN << >> ELSE msgs[1])
    ELSE CommaSeparated(SubSeq(msgs, 1, Len(msgs) - 1))
             \o <<",", " ">> \o msgs[Len(msgs)]

\* the line of a key: the key, a colon and a space unless the key is
\* empty, the messages, a full stop and a newline
LineOf(m, k) ==
    (IF k = << >> THEN << >> ELSE k \o <<":", " ">>)
        \o CommaSeparated(m[k]) \o <<".", "10">>

\* the lines of the first n keys, one after the other
RECURSIVE LinesOf(_, _, _)
LinesOf(m, keys, n) ==
    IF n = 0 THEN << >> ELSE LinesOf(m, keys, n - 1) \o LineOf(m, keys[n])

Count(msgs, msg) == Cardinality({i \in 1..Len(msgs) : msgs[i] = msg})

\* two accumulators have the same keys and, at every key, the same
\* messages the same number of times
SameAsMultisets(l, r) ==
    /\ DOMAIN l = DOMAIN r
    /\ \A k \in DOMAIN l : \A msg \in MergeMsgs :
           Count(l[k], msg) = Count(r[k], msg)

\* C23: Merge is associative: merging b and then c into a, and merging c
\* into b and then b into a, give the same keys with the same messages
\* when the lists are compared as multisets.
C23_MergeAssociative ==
    call.op = "Merge" => SameAsMultisets(call.left, call.right)

\* C23 witness: the three accumulators have a key in common, with
\* messages that differ, and a has a key of its own.
C23_Witness ==
    /\ call.op = "Merge"
    /\ <<"x">> \in (DOMAIN Errors["v"] \cap DOMAIN Errors["s1"]) \cap DOMAIN Errors["s2"]
    /\ Errors["v"][<<"x">>] # Errors["s1"][<<"x">>]
    /\ <<"y">> \in (DOMAIN Errors["v"] \ DOMAIN Errors["s1"]) \ DOMAIN Errors["s2"]
    /\ Len(call.left[<<"x">>]) = 3
    /\ SameAsMultisets(call.left, call.right)

(***************************************************************************)
(* Properties of TemplateError.                                            *)
(***************************************************************************)
\* a text as it is written in HTML: the five characters of markup are
\* replaced by their entities
RECURSIVE AsHtmlText(_)
AsHtmlText(text) ==
    IF text = << >> THEN << >>
    ELSE (CASE text[1] = "&" -> <<"&", "a", "m", "p", ";">>
            [] text[1] = "<" -> <<"&", "l", "t", ";">>
            [] text[1] = ">" -> <<"&", "g", "t", ";">>
            [] text[1] = "'" -> <<"&", "#", "3", "9", ";">>
            [] text[1] = "\"" -> <<"&", "#", "3", "4", ";">>
            [] OTHER -> <<text[1]>>) \o AsHtmlText(Tail(text))

\* the keys of the accumulator a run of TemplateError calls started from
\* that none of the calls displayed
NeverDisplayed == DOMAIN call.start \ call.shown

\* C24: TemplateError(k, v) drains what it displays.  When v is not nil
\* and has messages for k, the markup is the span with the messages
\* joined by ", " (as HTML text), k is removed from v and the other keys
\* are left; when v is nil, has no errors or has no messages for k, the
\* markup is empty and nothing changes.  After any run of TemplateError
\* calls HasErrors() is true exactly when a key was never displayed.
C24_TemplateErrorDrains ==
    /\ call.op = "TemplateError" =>
           LET m == pre["v"]
               k == call.key
               shows == ~call.isNil /\ k \in DOMAIN m /\ m[k] # << >>
           IN  /\ shows =>
                      /\ call.str = <<"<", "s", "p", "a", "n", " ", "c", "l", "a", "s", "s", "=", "\"", "e", "r", "r", "\"", ">", "E", "r", "r", "o", "r", ":", " ">>
                                        \o AsHtmlText(CommaSeparated(m[k]))
                                        \o <<"<", "/", "s", "p", "a", "n", ">">>
                      /\ DOMAIN Errors["v"] = DOMAIN m \ {k}
                      /\ \A o \in DOMAIN Errors["v"] : Errors["v"][o] = m[o]
               /\ ~shows => call.str = << >> /\ Errors["v"] = m
               /\ \A o \in Validators \ {"v"} : Errors[o] = pre[o]
               /\ Validator_HasErrors(Errors["v"]) <=> NeverDisplayed # {}
    /\ (call.op = "TemplateHasErrors" /\ ~call.isNil) =>
           (call.has <=> NeverDisplayed # {})

\* C24 witness: of the keys xxx and hidden the first is displayed, with
\* two messages of which one has characters of markup, and has_errors
\* then tells that something is left.
C24_Witness ==
    /\ call.op = "TemplateHasErrors"
    /\ call.has
    /\ DOMAIN call.start = {<<"x", "x", "x">>, <<"h", "i", "d", "d", "e", "n">>}
    /\ call.shown = {<<"x", "x", "x">>}
    /\ call.str = <<"<", "s", "p", "a", "n", " ", "c", "l", "a", "s", "s", "=", "\"", "e", "r", "r", "\"", ">", "E", "r", "r", "o", "r", ":", " ", "o", "h", " ", "n", "o", "e", "s", ",", " ", "a", "&", "l", "t", ";", "b", " ", "&", "a", "m", "p", ";", " ", "c", "<", "/", "s", "p", "a", "n", ">">>
    /\ DOMAIN Errors["v"] = {<<"h", "i", "d", "d", "e", "n">>}

\* the labels of the value are not empty, of at most 63 bytes, not
\* punycode, and made of these characters; there are at least two of them
\* and the value has at most 255 bytes
LabelsMadeOf(value, chars) ==
    /\ Len(LabelSeq(value)) >= 2
    /\ Len(value) <= 255
    /\ \A i \in 1..Len(LabelSeq(value)) :
           LET l == LabelSeq(value)[i]
           IN  /\ 1 <= Len(l) /\ Len(l) <= 63
               /\ ~HasPrefix(l, <<"x", "n", "-", "-">>)
               /\ \A j \in 1..Len(l) : l[j] \in chars

\* C25: Domain accepts labels with underscores and labels that begin or
\* end with a hyphen: a value of at least 2 labels of ASCII letters,
\* digits, hyphens and underscores records no error.
C25_UnderscoresAndHyphensAccepted ==
    (IsValidDomainOfDomain /\ LabelsMadeOf(call.value, LabelChars \cup {"_"})) =>
        Succeeded

\* C25 witness: a value whose first label is made of letters and an
\* underscore is refused for the underscore.
C25_Witness ==
    /\ IsValidDomainOfDomain
    /\ LabelsMadeOf(call.value, LabelChars \cup {"_"})
    /\ LabelSeq(call.value)[1] = <<"a", "_", "b">>
    /\ FailedWith(<<"i", "n", "v", "a", "l", "i", "d", " ", "c", "h", "a", "r", "a", "c", "t", "e", "r", ":", " ", "'", "_", "'">>)

\* the label as the character check sees it: decoded when it is punycode
\* that decodes
CheckedLabel(l) ==
    IF HasPrefix(l, <<"x", "n", "-", "-">>) THEN punyDecode(SubSeq(l, 5, Len(l))).str ELSE l

\* the characters of a label that are no letter, no digit and no hyphen
NotAllowed(l) ==
    {j \in 1..Len(l) : ~(IsLetter(Ord(l[j])) \/ IsDigit(Ord(l[j])) \/ l[j] = "-")}

\* the first check a label violates, in the order length, punycode,
\* characters
FaultOf(l) ==
    IF ByteLen(l) > 63 THEN "length"
    ELSE IF HasPrefix(l, <<"x", "n", "-", "-">>) /\ ~punyDecode(SubSeq(l, 5, Len(l))).ok
    THEN "punycode"
    ELSE IF NotAllowed(CheckedLabel(l)) # {} THEN "character"
    ELSE "none"

\* the reason of a fault of a label
ReasonOfFault(l) ==
    CASE FaultOf(l) = "length" ->
             call.err.text = <<"l", "a", "b", "e", "l", " ", "i", "s", " ", "l", "o", "n", "g", "e", "r", " ", "t", "h", "a", "n", " ", "6", "3", " ", "b", "y", "t", "e", "s">>
      [] FaultOf(l) = "punycode" ->
             StartsWith(call.err.text, <<"n", "o", "t", " ", "v", "a", "l", "i", "d", " ", "p", "u", "n", "y", "c", "o", "d", "e", ":", " ">>)
      [] FaultOf(l) = "character" ->
             \E j \in NotAllowed(CheckedLabel(l)) :
                 /\ \A j2 \in NotAllowed(CheckedLabel(l)) : j <= j2
                 /\ call.err.text
                        = <<"i", "n", "v", "a", "l", "i", "d", " ", "c", "h", "a", "r", "a", "c", "t", "e", "r", ":", " ">> \o QuoteRune(Ord(CheckedLabel(l)[j]))
      [] OTHER -> FALSE

C27_NoKeyWithoutMessages ==
    /\ \A v \in Validators : \A k \in DOMAIN Errors[v] : Len(Errors[v][k]) >= 1
    /\ call.op = "Pop" => call.key \notin DOMAIN Errors[call.v]

\* C27 witness: a key is popped from an accumulator that holds a key made
\* by Sub as well, which stays with its messages.
C27_Witness ==
    /\ call.op = "Pop"
    /\ call.key \in DOMAIN pre[call.v]
    /\ call.key \notin DOMAIN Errors[call.v]
    /\ \E k \in DOMAIN Errors[call.v] : Len(k) > 1 /\ Len(Errors[call.v][k]) >= 1

(***************************************************************************)
(* Properties of the loops of punyDecode.                                  *)
(***************************************************************************)
\* a step of the inner loop was taken
DigitStepTaken == call.run.pc = "digits" /\ call'.run.steps = call.run.steps + 1

\* C28: punyDecode terminates on every input.  Every round of the inner
\* loop moves one byte on in the input or returns, every round of the
\* outer loop has read at least one digit, no more digits are read than
\* the input has bytes, the steps give what punyDecode gives, and the
\* decoder returns in the end.
C28_Terminates ==
    /\ [][DigitStepTaken =>
              \/ call'.run.pos = call.run.pos + 1
              \/ call'.run.pc = "return"]_vars
    /\ [](/\ call.run.rounds <= call.run.steps
          /\ call.run.steps <= Len(call.value)
          /\ call.run.pos <= Len(call.value)
          /\ call.run.pc = "return" => call.decoded = punyDecode(call.value))
    /\ (call.op = "punyDecode") ~> (call.run.pc = "return")

\* C28 witness: a decoding of several rounds that read every byte of its
\* input as a digit has returned.
C28_Witness ==
    /\ call.run.pc = "return"
    /\ call.decoded.ok
    /\ call.run.rounds >= 2
    /\ call.run.steps = Len(call.value)
    /\ call.run.steps > call.run.rounds

\* C29: the 32-bit arithmetic of punyDecode is safe.  Right after an
\* insertion the position it used lies inside the output as it was, the
\* code point it put there is between initialN and utf8.MaxRune; whenever
\* a sum or a product has left int32 the decoder has returned an error;
\* and a decoding that succeeds holds no code point outside 0..MaxRune.
C29_ArithmeticIsSafe ==
    /\ (call.run.pc = "loop" /\ call.run.rounds > 0) =>
           /\ 0 <= call.run.at
           /\ call.run.at <= Len(call.run.output) - 1
           /\ call.run.output[call.run.at + 1] = call.run.n
           /\ initialN <= call.run.n
           /\ call.run.n <= MaxRune
    /\ call.run.wrapped => (call.run.pc = "return" /\ ~call.decoded.ok)
    /\ (call.run.pc = "return" /\ call.decoded.ok) =>
           \A j \in 1..Len(call.run.output) :
               0 <= call.run.output[j] /\ call.run.output[j] <= MaxRune

\* C29 witness: after code points had been inserted, the sum i left int32
\* and the decoder returned an error.
C29_Witness ==
    /\ call.run.wrapped
    /\ call.run.rounds >= 1
    /\ call.run.pc = "return"
    /\ ~call.decoded.ok

(***************************************************************************)
(* Hostname against Domain.                                                *)
(***************************************************************************)
\* what the last call of validDomain gave
LastResult == [labels |-> call.labels, err |-> call.err]

\* what Domain gets from validDomain for the value of the last call
AsDomain == IF call.minLabels = 2 THEN LastResult ELSE validDomain(call.value, 2)

\* what Hostname gets from validDomain for the value of the last call
AsHostname == IF call.minLabels = 1 THEN LastResult ELSE validDomain(call.value, 1)

\* C30: Hostname is a relaxation of Domain.  For the same value, when
\* Domain has no error Hostname has none and returns the same labels; the
\* two give different results only for a value of exactly one label; and
\* for any other value that fails, the reason is the same for both.
C30_HostnameRelaxesDomain ==
    call.op = "validDomain" =>
        /\ AsDomain.err = NilError =>
               (AsHostname.err = NilError /\ AsHostname.labels = AsDomain.labels)
        /\ AsDomain # AsHostname =>
               (/\ ByteLen(call.value) >= 3
                /\ call.value[1] # "."
                /\ Len(LabelSeq(call.value)) = 1)
        /\ (AsDomain.err # NilError
              /\ ~(ByteLen(call.value) >= 3 /\ call.value[1] # "."
                       /\ Len(LabelSeq(call.value)) = 1)) =>
               AsHostname.err = AsDomain.err

\* C30 witness: Domain was asked about a value of several labels, one of
\* them punycode, and accepted it, and Hostname returns the same labels.
C30_Witness ==
    /\ call.op = "validDomain"
    /\ call.minLabels = 2
    /\ call.err = NilError
    /\ Len(call.labels.elems) >= 2
    /\ \E i \in 1..Len(LabelSeq(call.value)) :
           HasPrefix(LabelSeq(call.value)[i], <<"x", "n", "-", "-">>)
    /\ AsHostname = LastResult
====
